---- MODULE Spec2Model ----
(***************************************************************************)
(* A model of thejerf/strinterp: the escaping scanner, the directive       *)
(* parser, the WriterStack (layered sink) and the interpolation engine.    *)
(*                                                                         *)
(* Bytes are natural numbers (their ASCII codes), byte strings are         *)
(* sequences of bytes.  Go's nil []byte is the distinguished value Nil.    *)
(* Errors are records [type, arg]; NoErr is Go's nil error.                *)
(***************************************************************************)
EXTENDS Integers, Sequences, FiniteSets, TLC

VARIABLES
    heap,       \* the io.Writer objects that exist, a sequence indexed by id; BaseId is the base sink
    ws,         \* the WriterStack object: [Writer: id of the current top, components: Seq(id)]
    closeLog,   \* the ids Close was invoked on by the last Finish call, in call order
    err,        \* the error returned by the last call
    hist,       \* the calls made directly on the WriterStack so far, oldest first
    formatters, \* the Interpolator's registry of Formatters: name -> handler
    encoders,   \* the Interpolator's registry of Encoders: name -> handler
    tmpl,       \* the formatBytes the running InterpWriter call was given
    args0,      \* the args the running InterpWriter call was given
    fbuf,       \* InterpWriter: the unread part of the format buffer (buf)
    argsLeft,   \* InterpWriter: the arguments not consumed yet (args)
    calls,      \* InterpWriter: the head handlers invoked so far, with the value each received
    lastFormat, \* InterpWriter: the directive read in the last pass (rawFormat; Nil when none was)
    pass,       \* InterpWriter: the number of passes of the scan loop made
    done,       \* InterpWriter: the call has returned (with err)
    running     \* the InterpWriter calls in progress on one shared Interpolator

stackVars == <<heap, ws, closeLog, err>>

regVars == <<formatters, encoders>>

callVars == <<tmpl, args0, fbuf, argsLeft, calls, lastFormat, pass, done>>

vars == <<heap, ws, closeLog, err, hist, formatters, encoders,
          tmpl, args0, fbuf, argsLeft, calls, lastFormat, pass, done, running>>

-----------------------------------------------------------------------------
(* Bounds of the model *)

MaxOps == 4

-----------------------------------------------------------------------------
(* Values *)

Nil == <<-1>>

NoErr == [type |-> "nil", arg |-> <<>>]

EOF == [type |-> "EOF", arg |-> <<>>]

ErrBadClose == [type |-> "ErrBadClose", arg |-> <<>>]

ErrCustom == [type |-> "ErrCustom", arg |-> <<>>]

ErrUnknownArguments(a) == [type |-> "ErrUnknownArguments", arg |-> a]

NilWriter == -1

BaseId == 1

S_std == <<115, 116, 100>>

S_url == <<117, 114, 108>>

S_nocrlf == <<110, 111, 99, 114, 108, 102>>

S_lt == <<38, 108, 116, 59>>

S_gt == <<38, 103, 116, 59>>

Reverse(s) == [i \in 1..Len(s) |-> s[Len(s) + 1 - i]]

RECURSIVE Digits(_)
Digits(n) == IF n < 10 THEN <<48 + n>> ELSE Digits(n \div 10) \o <<48 + (n % 10)>>

-----------------------------------------------------------------------------
(* encoding/base64 as used by Base64 *)

B64Char(enc, i) ==
    IF i < 26 THEN 65 + i
    ELSE IF i < 52 THEN 97 + (i - 26)
    ELSE IF i < 62 THEN 48 + (i - 52)
    ELSE IF i = 62 THEN (IF enc = "url" THEN 45 ELSE 43)
    ELSE (IF enc = "url" THEN 95 ELSE 47)

B64Group(enc, g) ==
    LET b1 == g[1]
        b2 == IF Len(g) >= 2 THEN g[2] ELSE 0
        b3 == IF Len(g) >= 3 THEN g[3] ELSE 0
        c1 == B64Char(enc, b1 \div 4)
        c2 == B64Char(enc, (b1 % 4) * 16 + (b2 \div 16))
        c3 == B64Char(enc, (b2 % 16) * 4 + (b3 \div 64))
        c4 == B64Char(enc, b3 % 64)
    IN  IF Len(g) = 1 THEN <<c1, c2, 61, 61>>
        ELSE IF Len(g) = 2 THEN <<c1, c2, c3, 61>>
        ELSE <<c1, c2, c3, c4>>

RECURSIVE B64Encode(_, _)
B64Encode(enc, s) ==
    IF Len(s) = 0 THEN <<>>
    ELSE IF Len(s) <= 3 THEN B64Group(enc, s)
    ELSE B64Group(enc, SubSeq(s, 1, 3)) \o B64Encode(enc, SubSeq(s, 4, Len(s)))

-----------------------------------------------------------------------------
(* Writer objects *)

Writer(kind, inner, enc, encodeCRLF, isCloser) ==
    [kind |-> kind, inner |-> inner, data |-> <<>>, enc |-> enc,
     encodeCRLF |-> encodeCRLF, err |-> NoErr, isCloser |-> isCloser, closes |-> 0]

\* the destination sinks: a bytes.Buffer, a WriterAlwaysEOF, and a sink that is an io.Closer
BufferSink == Writer("buffer", NilWriter, "", FALSE, FALSE)

WriterAlwaysEOF == Writer("eof", NilWriter, "", FALSE, FALSE)

CloserSink == Writer("buffer", NilWriter, "", FALSE, TRUE)

WriterFailClose == Writer("failclose", NilWriter, "", FALSE, TRUE)

Res(h, e) == [h |-> h, err |-> e]

CDATASpecial(b, encodeCRLF) ==
    b = 60 \/ b = 62 \/ (b < 32 /\ (encodeCRLF \/ (b # 10 /\ b # 13)))

CDATAEntity(b) ==
    IF b = 60 THEN S_lt
    ELSE IF b = 62 THEN S_gt
    ELSE <<38, 35>> \o Digits(b) \o <<59>>

RECURSIVE WWrite(_, _, _)
RECURSIVE CDATALoop(_, _, _, _, _)

\* CDATA's WriterFunc after the entity of the byte at idx was written with result r2
CDATAAfterEntity(id, by, idx, r2) ==
    IF r2.err # NoErr THEN r2 ELSE CDATALoop(r2.h, id, by, idx + 1, idx + 1)

\* CDATA's WriterFunc after the good run before the byte at idx was written with result r1
\* (the result of that write is overwritten by the entity's)
CDATAAfterGood(id, by, idx, r1) ==
    CDATAAfterEntity(id, by, idx, WWrite(r1.h, r1.h[id].inner, CDATAEntity(by[idx + 1])))

\* the body of the WriterFunc CDATA returns: idx and goodfrom are 0-based as in the code
CDATALoop(h, id, by, idx, goodfrom) ==
    IF idx >= Len(by)
    THEN IF goodfrom <= Len(by) - 1
         THEN WWrite(h, h[id].inner, SubSeq(by, goodfrom + 1, Len(by)))
         ELSE Res(h, NoErr)
    ELSE IF CDATASpecial(by[idx + 1], h[id].encodeCRLF)
         THEN CDATAAfterGood(id, by, idx,
                             IF goodfrom # idx
                             THEN WWrite(h, h[id].inner, SubSeq(by, goodfrom + 1, idx))
                             ELSE Res(h, NoErr))
         ELSE CDATALoop(h, id, by, idx + 1, goodfrom)

\* base64's encoder.Write after the whole groups of p were written with result r2:
\* rest is the trailing fringe
B64AfterInterior(id, rest, r2) ==
    IF r2.err # NoErr
    THEN Res([r2.h EXCEPT ![id].data = <<>>, ![id].err = r2.err], r2.err)
    ELSE Res([r2.h EXCEPT ![id].data = rest], NoErr)

\* base64's encoder.Write after the leading fringe buf1 was written with result r1:
\* p1 is what is left of p
B64AfterFringe(id, buf1, p1, r1) ==
    IF r1.err # NoErr
    THEN Res([r1.h EXCEPT ![id].data = buf1, ![id].err = r1.err], r1.err)
    ELSE LET nn == (Len(p1) \div 3) * 3 IN
         B64AfterInterior(id, SubSeq(p1, nn + 1, Len(p1)),
                          IF nn > 0
                          THEN WWrite(r1.h, r1.h[id].inner,
                                      B64Encode(r1.h[id].enc, SubSeq(p1, 1, nn)))
                          ELSE Res(r1.h, NoErr))

\* base64's encoder.Write: fill the 3-byte buffer, emit whole groups, keep the fringe
B64Write(h, id, p) ==
    LET e == h[id]
        nbuf == Len(e.data)
        take == IF nbuf > 0 THEN (IF Len(p) < 3 - nbuf THEN Len(p) ELSE 3 - nbuf) ELSE 0
        buf1 == e.data \o SubSeq(p, 1, take)
        p1 == SubSeq(p, take + 1, Len(p))
    IN  IF e.err # NoErr THEN Res(h, e.err)
        ELSE IF nbuf > 0 /\ Len(buf1) < 3 THEN Res([h EXCEPT ![id].data = buf1], NoErr)
        ELSE B64AfterFringe(id, buf1, p1,
                            IF nbuf > 0
                            THEN WWrite(h, e.inner, B64Group(e.enc, buf1))
                            ELSE Res(h, NoErr))

\* w.Write(p) on the writer object id
WWrite(h, id, p) ==
    LET k == h[id].kind IN
    IF k = "buffer" THEN Res([h EXCEPT ![id].data = @ \o p], NoErr)
    ELSE IF k = "eof" THEN (IF Len(p) > 0 THEN Res(h, EOF) ELSE Res(h, NoErr))
    ELSE IF k = "raw" THEN WWrite(h, h[id].inner, p)
    ELSE IF k = "failclose" THEN Res(h, NoErr)
    ELSE IF k = "cdata" THEN CDATALoop(h, id, p, 0, 0)
    ELSE B64Write(h, id, p)

\* base64's encoder.Close after the buffered bytes were written with result r
B64Flushed(id, r) == Res([r.h EXCEPT ![id].data = <<>>, ![id].err = r.err], r.err)

\* closer.Close() on the writer object id (only called on writers that are io.Closers)
WClose(h, id) ==
    LET e == h[id]
        h1 == [h EXCEPT ![id].closes = @ + 1]
    IN  IF e.kind = "failclose" THEN Res(h1, ErrBadClose)
        ELSE IF e.kind = "base64"
        THEN IF e.err = NoErr /\ Len(e.data) > 0
             THEN B64Flushed(id, WWrite(h1, e.inner, B64Group(e.enc, e.data)))
             ELSE Res(h1, e.err)
        ELSE Res(h1, NoErr)

-----------------------------------------------------------------------------
(* Encoders: func(inner io.Writer, args []byte) (io.Writer, error) *)

EncRes(w, e) == [w |-> w, err |-> e]

raw(inner, args) == EncRes(Writer("raw", inner, "", FALSE, FALSE), NoErr)

Base64(w, args) ==
    IF args # Nil /\ args # S_std /\ args # S_url
    THEN EncRes(Nil, ErrUnknownArguments(args))
    ELSE EncRes(Writer("base64", w, IF args = S_url THEN "url" ELSE "std", FALSE, TRUE), NoErr)

CDATA(inner, args) ==
    IF args # Nil /\ args # S_nocrlf
    THEN EncRes(Nil, ErrUnknownArguments(args))
    ELSE EncRes(Writer("cdata", inner, "", args = Nil, FALSE), NoErr)

badEncoder(inner, params) == EncRes(Nil, ErrCustom)

badCloseEncoder(w, args) == EncRes(WriterFailClose, NoErr)

EncoderNames == {"raw", "Base64", "CDATA", "badEncoder", "badCloseEncoder"}

CallEncoder(enc, inner, args) ==
    IF enc = "raw" THEN raw(inner, args)
    ELSE IF enc = "Base64" THEN Base64(inner, args)
    ELSE IF enc = "CDATA" THEN CDATA(inner, args)
    ELSE IF enc = "badEncoder" THEN badEncoder(inner, args)
    ELSE badCloseEncoder(inner, args)

-----------------------------------------------------------------------------
(* WriterStack *)

\* NewWriterStack with the base writer listed as the first component
NewWriterStackListingBase(w) == [Writer |-> w, components |-> <<w>>]

NewWriterStack(w) == [Writer |-> w, components |-> <<>>]

\* a Push that skips an encoder that failed and reports nothing
PushedDroppingError(h, s, r) ==
    IF r.err # NoErr
    THEN [h |-> h, ws |-> s, err |-> NoErr]
    ELSE [h |-> Append(h, r.w),
          ws |-> [Writer |-> Len(h) + 1, components |-> Append(s.components, Len(h) + 1)],
          err |-> NoErr]

\* a Push that lists the new writer but leaves the one before it as the current writer
PushedKeepingTop(h, s, r) ==
    IF r.err # NoErr
    THEN [h |-> h, ws |-> [s EXCEPT !.Writer = NilWriter], err |-> r.err]
    ELSE [h |-> Append(h, r.w),
          ws |-> [Writer |-> s.Writer, components |-> Append(s.components, Len(h) + 1)],
          err |-> NoErr]

\* Push after enc(ws.Writer, args) returned r: the new writer object gets the next id
Pushed(h, s, r) ==
    IF r.err # NoErr
    THEN [h |-> h, ws |-> [s EXCEPT !.Writer = NilWriter], err |-> r.err]
    ELSE [h |-> Append(h, r.w),
          ws |-> [Writer |-> Len(h) + 1, components |-> Append(s.components, Len(h) + 1)],
          err |-> NoErr]

\* Push that hands the encoder the base writer instead of the current top
PushOntoBase(h, s, enc, a) == Pushed(h, s, CallEncoder(enc, BaseId, a))

\* Push: returns the heap with the new writer object, the stack and the error
Push(h, s, enc, a) == Pushed(h, s, CallEncoder(enc, s.Writer, a))

RECURSIVE FinishFrom(_, _, _, _)

\* the loop of Finish after Close on components[i] returned r
\* Finish that drops the error of a Close and goes on to the layers beneath
FinishClosedContinuing(s, i, log, r) == FinishFrom(r.h, s, i - 1, log)

FinishClosed(s, i, log, r) ==
    IF r.err # NoErr THEN [h |-> r.h, log |-> log, err |-> r.err]
    ELSE FinishFrom(r.h, s, i - 1, log)

\* the loop of Finish, at index i (1-based) of components
FinishFrom(h, s, i, log) ==
    IF i < 1 THEN [h |-> h, log |-> log, err |-> NoErr]
    ELSE IF h[s.components[i]].isCloser
         THEN FinishClosed(s, i, Append(log, s.components[i]), WClose(h, s.components[i]))
         ELSE FinishFrom(h, s, i - 1, log)

RECURSIVE FinishForwardFrom(_, _, _, _)

FinishForwardClosed(s, i, log, r) ==
    IF r.err # NoErr THEN [h |-> r.h, log |-> log, err |-> r.err]
    ELSE FinishForwardFrom(r.h, s, i + 1, log)

\* the loop of Finish reversed (closing in push order), as the comment in Finish describes
FinishForwardFrom(h, s, i, log) ==
    IF i > Len(s.components) THEN [h |-> h, log |-> log, err |-> NoErr]
    ELSE IF h[s.components[i]].isCloser
         THEN FinishForwardClosed(s, i, Append(log, s.components[i]),
                                  WClose(h, s.components[i]))
         ELSE FinishForwardFrom(h, s, i + 1, log)

FinishForward(h, s) == FinishForwardFrom(h, s, 1, <<>>)

Finish(h, s) == FinishFrom(h, s, Len(s.components), <<>>)

-----------------------------------------------------------------------------
(* Direct use of a WriterStack: any sequence of Push, Write and Finish calls *)

S_bad == <<98, 97, 100>>

\* the (encoder, args) pairs a caller pushes
PushInputs ==
    {<<"raw", Nil>>, <<"Base64", Nil>>, <<"Base64", S_url>>, <<"Base64", S_bad>>,
     <<"CDATA", Nil>>, <<"badEncoder", Nil>>, <<"badCloseEncoder", Nil>>}

\* the byte strings a caller writes: "a", "<b", "foo\x00bar"
Payloads == {<<97>>, <<60, 98>>, <<102, 111, 111, 0, 98, 97, 114>>}

Sinks == {BufferSink, WriterAlwaysEOF, CloserSink}

Op(op, enc, args, p) == [op |-> op, enc |-> enc, args |-> args, p |-> p]

InitStack ==
    /\ \E sink \in Sinks : heap = <<sink>>
    /\ ws = NewWriterStack(BaseId)
    /\ closeLog = <<>>
    /\ err = NoErr
    /\ hist = <<>>
    /\ formatters = <<>> /\ encoders = <<>>
    /\ tmpl = <<>> /\ args0 = <<>> /\ fbuf = <<>> /\ argsLeft = <<>> /\ calls = <<>>
    /\ lastFormat = Nil /\ pass = 0 /\ done = TRUE
    /\ running = <<>>

\* ws.Push(enc, args); after a failed Push the stack is no longer valid to use
StackPush(enc, a) ==
    /\ Len(hist) < MaxOps
    /\ ws.Writer # NilWriter
    /\ LET r == Push(heap, ws, enc, a) IN
        /\ heap' = r.h
        /\ ws' = r.ws
        /\ err' = r.err
    /\ hist' = Append(hist, Op("Push", enc, a, <<>>))
    /\ UNCHANGED <<closeLog, regVars, callVars, running>>

\* ws.Write(p): the embedded io.Writer, the current top
StackWrite(p) ==
    /\ Len(hist) < MaxOps
    /\ ws.Writer # NilWriter
    /\ LET r == WWrite(heap, ws.Writer, p) IN
        /\ heap' = r.h
        /\ err' = r.err
    /\ hist' = Append(hist, Op("Write", "", Nil, p))
    /\ UNCHANGED <<ws, closeLog, regVars, callVars, running>>

\* ws.Finish()
StackFinish ==
    /\ Len(hist) < MaxOps
    /\ LET r == Finish(heap, ws) IN
        /\ heap' = r.h
        /\ closeLog' = r.log
        /\ err' = r.err
    /\ hist' = Append(hist, Op("Finish", "", Nil, <<>>))
    /\ UNCHANGED <<ws, regVars, callVars, running>>

NextStack ==
    \/ \E in \in PushInputs : StackPush(in[1], in[2])
    \/ \E p \in Payloads : StackWrite(p)
    \/ StackFinish

SpecStack == InitStack /\ [][NextStack]_vars

-----------------------------------------------------------------------------
(* The escaping scanner and the directive parser *)

ScanRes(result, rest, e) == [result |-> result, rest |-> rest, err |-> e]

\* a scanner that copies the backslash along with the byte it protects
RECURSIVE ReadLoopKeepingBackslash(_, _, _)
ReadLoopKeepingBackslash(buf, delim, result) ==
    IF Len(buf) = 0 THEN ScanRes(result, <<>>, EOF)
    ELSE LET b == Head(buf) IN
         IF b = 92
         THEN IF Len(buf) = 1 THEN ScanRes(result, <<>>, EOF)
              ELSE ReadLoopKeepingBackslash(SubSeq(buf, 3, Len(buf)), delim,
                                            result \o <<92, buf[2]>>)
         ELSE IF b = delim THEN ScanRes(result, Tail(buf), NoErr)
         ELSE ReadLoopKeepingBackslash(Tail(buf), delim, Append(result, b))

\* a scanner that keeps a backslash that is the last byte of the input
RECURSIVE ReadLoopKeepingLast(_, _, _)
ReadLoopKeepingLast(buf, delim, result) ==
    IF Len(buf) = 0 THEN ScanRes(result, <<>>, EOF)
    ELSE LET b == Head(buf) IN
         IF b = 92
         THEN IF Len(buf) = 1 THEN ScanRes(Append(result, 92), <<>>, EOF)
              ELSE ReadLoopKeepingLast(SubSeq(buf, 3, Len(buf)), delim,
                                       Append(result, buf[2]))
         ELSE IF b = delim THEN ScanRes(result, Tail(buf), NoErr)
         ELSE ReadLoopKeepingLast(Tail(buf), delim, Append(result, b))

\* readBytesUntilUnescDelim: buf is the unread part of the bytes.Buffer
RECURSIVE ReadLoop(_, _, _)
ReadLoop(buf, delim, result) ==
    IF Len(buf) = 0 THEN ScanRes(result, <<>>, EOF)
    ELSE LET b == Head(buf) IN
         IF b = 92
         THEN IF Len(buf) = 1 THEN ScanRes(result, <<>>, EOF)
              ELSE ReadLoop(SubSeq(buf, 3, Len(buf)), delim, Append(result, buf[2]))
         ELSE IF b = delim THEN ScanRes(result, Tail(buf), NoErr)
         ELSE ReadLoop(Tail(buf), delim, Append(result, b))

readBytesUntilUnescDelim(buf, delim) == ReadLoop(buf, delim, <<>>)

\* splitHonoringEscaping: the chunks between unescaped delimiters
RECURSIVE SplitLoop(_, _, _)
SplitLoop(buf, delim, result) ==
    LET r == readBytesUntilUnescDelim(buf, delim) IN
    IF r.err = NoErr THEN SplitLoop(r.rest, delim, Append(result, r.result))
    ELSE Append(result, r.result)

splitHonoringEscaping(buf, delim) == SplitLoop(buf, delim, <<>>)

\* the position of the first b in s, 0 when there is none
RECURSIVE IndexFrom(_, _, _)
IndexFrom(s, b, i) ==
    IF i > Len(s) THEN 0 ELSE IF s[i] = b THEN i ELSE IndexFrom(s, b, i + 1)

IndexByte(s, b) == IndexFrom(s, b, 1)

\* a split at every colon (bytes.Split) that takes the second chunk as the arguments
SplitFormatAtEveryColon(formatSpec) ==
    LET i == IndexByte(formatSpec, 58)
        after == SubSeq(formatSpec, i + 1, Len(formatSpec))
        j == IndexByte(after, 58)
    IN  IF i = 0 THEN [format |-> formatSpec, formatArgs |-> Nil]
        ELSE [format |-> SubSeq(formatSpec, 1, i - 1),
              formatArgs |-> IF j = 0 THEN after ELSE SubSeq(after, 1, j - 1)]

\* a split that gives nil for the arguments when nothing follows the colon
SplitFormatBlankIsNil(formatSpec) ==
    LET i == IndexByte(formatSpec, 58) IN
    IF i = 0 \/ i = Len(formatSpec)
    THEN [format |-> IF i = 0 THEN formatSpec ELSE SubSeq(formatSpec, 1, i - 1),
          formatArgs |-> Nil]
    ELSE [format |-> SubSeq(formatSpec, 1, i - 1),
          formatArgs |-> SubSeq(formatSpec, i + 1, Len(formatSpec))]

\* bytes.SplitN(formatSpec, []byte(":"), 2) and the choice of format and formatArgs:
\* formatArgs is nil when there is no colon
SplitFormat(formatSpec) ==
    LET i == IndexByte(formatSpec, 58) IN
    IF i = 0 THEN [format |-> formatSpec, formatArgs |-> Nil]
    ELSE [format |-> SubSeq(formatSpec, 1, i - 1),
          formatArgs |-> SubSeq(formatSpec, i + 1, Len(formatSpec))]

ErrUnknownEncoder(name) == [type |-> "ErrUnknownEncoder", arg |-> name]

ErrUnknownFormatter(name) == [type |-> "ErrUnknownFormatter", arg |-> name]

ErrIncompleteFormatString == [type |-> "ErrIncompleteFormatString", arg |-> <<>>]

ErrNotGiven == [type |-> "ErrNotGiven", arg |-> <<>>]

ErrNoDefaultHandling == [type |-> "ErrNoDefaultHandling", arg |-> <<>>]

\* a run-time panic of a handler (a failed type assertion): the call does not return
Panic == [type |-> "panic", arg |-> <<>>]

\* parseEncoder whose error carries the whole stage specification instead of the name
parseEncoderNamingSpec(encs, formatSpec) ==
    LET c == SplitFormat(formatSpec) IN
    IF c.format \notin DOMAIN encs
    THEN [encoder |-> "", formatArgs |-> Nil, err |-> ErrUnknownEncoder(formatSpec)]
    ELSE [encoder |-> encs[c.format], formatArgs |-> c.formatArgs, err |-> NoErr]

\* parseEncoder: the encoder registered under the stage's name, and the stage's arguments
parseEncoder(encs, formatSpec) ==
    LET c == SplitFormat(formatSpec) IN
    IF c.format \notin DOMAIN encs
    THEN [encoder |-> "", formatArgs |-> Nil, err |-> ErrUnknownEncoder(c.format)]
    ELSE [encoder |-> encs[c.format], formatArgs |-> c.formatArgs, err |-> NoErr]

-----------------------------------------------------------------------------
(* Argument values and the formatters *)

Value(shape, data) == [shape |-> shape, data |-> data]

\* the token passed to the head handler when the argument list is exhausted
NotGiven == Value("NotGiven", <<>>)

HexDigit(n) == IF n < 10 THEN 48 + n ELSE 97 + (n - 10)

\* encoding/json's encoding of one byte of a string (ASCII, HTML-safe escaping on)
JSONByte(b) ==
    IF b = 34 THEN <<92, 34>>
    ELSE IF b = 92 THEN <<92, 92>>
    ELSE IF b = 10 THEN <<92, 110>>
    ELSE IF b = 13 THEN <<92, 114>>
    ELSE IF b = 9 THEN <<92, 116>>
    ELSE IF b < 32 \/ b = 60 \/ b = 62 \/ b = 38
         THEN <<92, 117, 48, 48, HexDigit(b \div 16), HexDigit(b % 16)>>
    ELSE <<b>>

RECURSIVE JSONString(_)
JSONString(s) == IF Len(s) = 0 THEN <<>> ELSE JSONByte(Head(s)) \o JSONString(Tail(s))

\* what json.Encoder.Encode writes for the value
JSONEncode(val) ==
    (IF val.shape = "string" THEN <<34>> \o JSONString(val.data) \o <<34>>
     ELSE IF val.shape = "bytes" THEN <<34>> \o B64Encode("std", val.data) \o <<34>>
     ELSE IF val.shape = "int" THEN Digits(val.data[1])
     ELSE <<123, 125>>) \o <<10>>

JSON(h, w, val, params) == WWrite(h, w, JSONEncode(val))

badFormatter(h, inner, val, params) == Res(h, ErrCustom)

\* the formatter TestParameters registers as "p": it writes params, then arg.(string),
\* and ignores the results of both writes
pWriteArg(w, arg, r1) ==
    IF arg.shape # "string" THEN Res(r1.h, Panic)
    ELSE Res(WWrite(r1.h, w, arg.data).h, NoErr)

pFormatter(h, w, arg, params) ==
    pWriteArg(w, arg, WWrite(h, w, IF params = Nil THEN <<>> ELSE params))

CallFormatter(f, h, w, val, params) ==
    IF f = "JSON" THEN JSON(h, w, val, params)
    ELSE IF f = "badFormatter" THEN badFormatter(h, w, val, params)
    ELSE pFormatter(h, w, val, params)

\* the raw-value write of the head-is-Encoder path
WriteRaw(h, w, val) ==
    IF val.shape = "bytes" \/ val.shape = "string" THEN WWrite(h, w, val.data)
    ELSE IF val.shape = "reader"
         THEN (IF Len(val.data) = 0 THEN Res(h, NoErr) ELSE WWrite(h, w, val.data))
    ELSE IF val.shape = "NotGiven" THEN Res(h, ErrNotGiven)
    ELSE Res(h, ErrNoDefaultHandling)

-----------------------------------------------------------------------------
(* The interpolation engine: one pass of InterpWriter's scan loop *)

\* the state of one InterpWriter call.  reg is the Interpolator's registry
\* [formatters, encoders]: name -> handler.
Fail(st, h, s, e) == [st EXCEPT !.heap = h, !.ws = s, !.err = e, !.done = TRUE]

\* the chain stages in the order they are resolved
RECURSIVE ResolveChain(_, _, _)
ResolveChain(encs, stages, i) ==
    IF i > Len(stages) THEN NoErr
    ELSE LET r == parseEncoder(encs, stages[i]) IN
         IF r.err # NoErr THEN r.err ELSE ResolveChain(encs, stages, i + 1)

\* the chain encoders pushed for stages idx, idx-1, ..., 2 (1-based; stage 1 is the head)
RECURSIVE PushChain(_, _, _, _, _)

PushChainPushed(encs, stages, idx, r) ==
    IF r.err # NoErr THEN r ELSE PushChain(encs, r.h, r.ws, stages, idx - 1)

PushChainStage(encs, h, s, stages, idx, e) ==
    PushChainPushed(encs, stages, idx, Push(h, s, e.encoder, e.formatArgs))

PushChain(encs, h, s, stages, idx) ==
    IF idx < 2 THEN [h |-> h, ws |-> s, err |-> NoErr]
    ELSE PushChainStage(encs, h, s, stages, idx, parseEncoder(encs, stages[idx]))

\* the end of a directive: fin is the result of Finish on its pipeline s
Finished(st, s, fin) ==
    [st EXCEPT !.heap = fin.h, !.ws = s, !.closeLog = fin.log, !.err = fin.err,
               !.done = (fin.err # NoErr)]

\* after the head handler returned r: Finish the pipeline s unless it failed
AfterHead(st, s, r) ==
    IF r.err # NoErr THEN Fail(st, r.h, s, r.err)
    ELSE Finished(st, s, Finish(r.h, s))

Called(st, head, kind, thisArg) ==
    [st EXCEPT !.calls = Append(@, [name |-> head.format, kind |-> kind, val |-> thisArg,
                                    params |-> head.formatArgs])]

\* a directive whose head is a Formatter: call it with the pipeline as its sink, then Finish
FormatterHead(reg, st, head, thisArg) ==
    AfterHead(Called(st, head, "formatter", thisArg), st.ws,
              CallFormatter(reg.formatters[head.format], st.heap, st.ws.Writer, thisArg,
                            head.formatArgs))

\* the head Encoder was pushed with result p: write the raw value, then Finish
EncoderPushed(st, head, thisArg, p) ==
    IF p.err # NoErr THEN Fail(st, p.h, p.ws, p.err)
    ELSE AfterHead(Called(st, head, "encoder", thisArg), p.ws,
                   WriteRaw(p.h, p.ws.Writer, thisArg))

\* a head Encoder that is not pushed: the raw value goes to the chain as it stands
EncoderHeadUnpushed(reg, st, head, thisArg) ==
    AfterHead(Called(st, head, "encoder", thisArg), st.ws,
              WriteRaw(st.heap, st.ws.Writer, thisArg))

\* a directive whose head is an Encoder: push it last, write the raw value, then Finish
EncoderHead(reg, st, head, thisArg) ==
    EncoderPushed(st, head, thisArg,
                  Push(st.heap, st.ws, reg.encoders[head.format], head.formatArgs))

\* an argument list that is not advanced when an argument is taken
RestArgsKept(a) == a

\* the argument list after the directive took its argument: args = args[1:]
RestArgs(a) == IF Len(a) > 0 THEN Tail(a) ELSE a

\* " error: No arg;"
S_noArg == <<32, 101, 114, 114, 111, 114, 58, 32, 78, 111, 32, 97, 114, 103, 59>>

\* the directive found no argument left: "%" + format + " error: No arg;" was written to
\* the destination w with result r, and the scan goes on
NoArg(st, r) == [st EXCEPT !.heap = r.h, !.err = r.err, !.done = (r.err # NoErr)]

\* the pipeline was built with result b: take the next argument and run the head, or
\* write the no-argument text when the argument list is exhausted
Built(reg, st, head, b) ==
    IF b.err # NoErr THEN Fail(st, b.h, b.ws, b.err)
    ELSE IF Len(st.args) = 0
    THEN NoArg([st EXCEPT !.ws = b.ws, !.closeLog = <<>>],
               WWrite(b.h, BaseId, <<37>> \o head.format \o S_noArg))
    ELSE IF head.format \in DOMAIN reg.formatters
    THEN FormatterHead(reg,
                       [st EXCEPT !.heap = b.h, !.ws = b.ws, !.closeLog = <<>>,
                                  !.args = RestArgs(@)],
                       head, Head(st.args))
    ELSE EncoderHead(reg,
                     [st EXCEPT !.heap = b.h, !.ws = b.ws, !.closeLog = <<>>,
                                !.args = RestArgs(@)],
                     head, Head(st.args))

\* the stages of a directive that is not the escape: resolve the head and the chain,
\* then build the pipeline on the destination sink
Resolved(reg, st, stages, head) ==
    IF head.format \notin DOMAIN reg.formatters /\ head.format \notin DOMAIN reg.encoders
    THEN Fail(st, st.heap, st.ws, ErrUnknownFormatter(head.format))
    ELSE IF ResolveChain(reg.encoders, stages, 2) # NoErr
    THEN Fail(st, st.heap, st.ws, ResolveChain(reg.encoders, stages, 2))
    ELSE Built(reg, st, head,
               PushChain(reg.encoders, st.heap, NewWriterStack(BaseId), stages, Len(stages)))

Staged(reg, st, stages) == Resolved(reg, st, stages, SplitFormat(stages[1]))

\* a directive that is not the escape
Directive(reg, st, rawFormatBytes) ==
    Staged(reg, st, splitHonoringEscaping(rawFormatBytes, 124))

\* an escape directive that takes an argument as other directives do
EscapedConsumingArg(st, e) ==
    [st EXCEPT !.heap = e.h, !.err = e.err, !.done = (e.err # NoErr),
               !.args = IF Len(@) > 0 THEN Tail(@) ELSE @]

\* an escape directive that is left in the buffer to be read again
EscapedRereading(st, e) ==
    [st EXCEPT !.heap = e.h, !.err = e.err, !.done = (e.err # NoErr),
               !.buf = <<37, 37, 59>> \o @]

\* an escape directive that drops the result of its write
EscapedUnchecked(st, e) == [st EXCEPT !.heap = e.h]

\* the escape directive: one '%' is written to the destination sink, with result e
Escaped(st, e) == [st EXCEPT !.heap = e.h, !.err = e.err, !.done = (e.err # NoErr)]

\* a directive cut off by the end of input that is handled like a terminated one
DirectiveReadUnchecked(reg, st, d) ==
    IF Len(SplitFormat(d.result).format) = 1 /\ SplitFormat(d.result).format[1] = 37
    THEN Escaped([st EXCEPT !.buf = d.rest, !.rawFormat = d.result],
                 WWrite(st.heap, BaseId, <<37>>))
    ELSE Directive(reg, [st EXCEPT !.buf = d.rest, !.rawFormat = d.result], d.result)

\* the directive was read with result d
DirectiveRead(reg, st, d) ==
    IF d.err = EOF
    THEN [st EXCEPT !.buf = d.rest, !.err = ErrIncompleteFormatString, !.done = TRUE]
    ELSE IF Len(SplitFormat(d.result).format) = 1 /\ SplitFormat(d.result).format[1] = 37
    THEN Escaped([st EXCEPT !.buf = d.rest, !.rawFormat = d.result],
                 WWrite(st.heap, BaseId, <<37>>))
    ELSE Directive(reg, [st EXCEPT !.buf = d.rest, !.rawFormat = d.result], d.result)

\* a scan loop that returns at the end of input without writing the last literal span
LiteralWrittenTailDropped(reg, st, lit, w) ==
    IF lit.err = EOF THEN [st EXCEPT !.buf = lit.rest, !.done = TRUE]
    ELSE IF w.err # NoErr
    THEN [st EXCEPT !.buf = lit.rest, !.heap = w.h, !.err = w.err, !.done = TRUE]
    ELSE DirectiveRead(reg, [st EXCEPT !.buf = lit.rest, !.heap = w.h],
                       readBytesUntilUnescDelim(lit.rest, 59))

\* a literal span that is written although the write before it failed: the error is
\* kept for the return, and the directive after the span is run first
LiteralWrittenGoingOn(reg, st, lit, w) ==
    IF lit.err = EOF
    THEN [st EXCEPT !.buf = lit.rest, !.heap = w.h, !.err = w.err, !.done = TRUE]
    ELSE LET n == DirectiveRead(reg, [st EXCEPT !.buf = lit.rest, !.heap = w.h],
                                readBytesUntilUnescDelim(lit.rest, 59))
         IN  IF w.err # NoErr THEN [n EXCEPT !.err = w.err, !.done = TRUE] ELSE n

\* an InterpWriter that does something with remaining unused args: it refuses them
LiteralWrittenRefusingUnused(reg, st, lit, w) ==
    IF lit.err = EOF \/ w.err # NoErr
    THEN [st EXCEPT !.buf = lit.rest, !.heap = w.h, !.done = TRUE,
                    !.err = IF w.err = NoErr /\ st.args # <<>>
                            THEN ErrIncompleteFormatString ELSE w.err]
    ELSE DirectiveRead(reg, [st EXCEPT !.buf = lit.rest, !.heap = w.h],
                       readBytesUntilUnescDelim(lit.rest, 59))

\* the literal span was read with result lit and written with result w
LiteralWritten(reg, st, lit, w) ==
    IF lit.err = EOF \/ w.err # NoErr
    THEN [st EXCEPT !.buf = lit.rest, !.heap = w.h, !.err = w.err, !.done = TRUE]
    ELSE DirectiveRead(reg, [st EXCEPT !.buf = lit.rest, !.heap = w.h],
                       readBytesUntilUnescDelim(lit.rest, 59))

LiteralRead(reg, st, lit) ==
    LiteralWritten(reg, st, lit, WWrite(st.heap, BaseId, lit.result))

\* one pass of the loop of InterpWriter: the literal span up to the next unescaped '%',
\* then the directive up to the next unescaped ';'
InterpPass(reg, st) ==
    LiteralRead(reg, [st EXCEPT !.pass = @ + 1, !.rawFormat = Nil],
                readBytesUntilUnescDelim(st.buf, 37))

\* the state InterpWriter(w, formatBytes, args...) starts in
InterpStart(sink, formatBytes, a) ==
    [buf |-> formatBytes, args |-> a, heap |-> <<sink>>, ws |-> NewWriterStack(BaseId),
     closeLog |-> <<>>, err |-> NoErr, done |-> FALSE, calls |-> <<>>,
     rawFormat |-> Nil, pass |-> 0]

\* the whole call
RECURSIVE InterpRun(_, _)
InterpRun(reg, st) == IF st.done THEN st ELSE InterpRun(reg, InterpPass(reg, st))

InterpWriter(reg, sink, formatBytes, a) == InterpRun(reg, InterpStart(sink, formatBytes, a))

\* what InterpStr returns: the string and the error
StrRes(str, e) == [str |-> str, err |-> e]

\* an InterpStr that returns whatever reached its buffer, error or not
InterpStrKeepingPartial(reg, format, a) ==
    LET st == InterpWriter(reg, BufferSink, format, a) IN
    StrRes(st.heap[BaseId].data, st.err)

\* InterpStr: interpolate into a new bytes.Buffer; "" and the error if InterpWriter
\* failed, the buffer's content and nil otherwise
InterpStr(reg, format, a) ==
    LET st == InterpWriter(reg, BufferSink, format, a) IN
    IF st.err # NoErr THEN StrRes(<<>>, st.err)
    ELSE StrRes(st.heap[BaseId].data, NoErr)

-----------------------------------------------------------------------------
(* The Interpolator under test and the calls made on it *)

MaxLen == 4

MaxBody == 4

MaxChain == 2

S_RAW == <<82, 65, 87>>

S_json == <<106, 115, 111, 110>>

S_base64 == <<98, 97, 115, 101, 54, 52>>

S_cdata == <<99, 100, 97, 116, 97>>

S_badform == <<98, 97, 100, 102, 111, 114, 109>>

S_badenc == <<98, 97, 100, 101, 110, 99>>

S_badclose == <<98, 97, 100, 99, 108, 111, 115, 101>>

S_blargh == <<98, 108, 97, 114, 103, 104>>

S_p == <<112>>

\* NewInterpolator registers "RAW"; TestInterpolator adds json, cdata, base64, badform,
\* badenc and badclose; TestParameters adds p
TestFormatters ==
    (S_json :> "JSON") @@ (S_badform :> "badFormatter") @@ (S_p :> "p")

TestEncoders ==
    (S_RAW :> "raw") @@ (S_cdata :> "CDATA") @@ (S_base64 :> "Base64")
    @@ (S_badenc :> "badEncoder") @@ (S_badclose :> "badCloseEncoder")

Registry == [formatters |-> formatters, encoders |-> encoders]

\* the bytes templates are made of: p % ; : | \
Alphabet == {112, 37, 59, 58, 124, 92}

RECURSIVE StringsOfLen(_)
StringsOfLen(n) ==
    IF n = 0 THEN {<<>>}
    ELSE {Append(t, b) : t \in StringsOfLen(n - 1), b \in Alphabet}

Strings(n) == UNION {StringsOfLen(k) : k \in 0..n}

\* every template of at most MaxLen bytes, and every single directive whose body has at
\* most MaxBody bytes
ShortTemplates ==
    Strings(MaxLen) \cup {<<37>> \o body \o <<59>> : body \in Strings(MaxBody)}

RECURSIVE Join(_)
Join(stages) ==
    IF Len(stages) = 1 THEN stages[1]
    ELSE stages[1] \o <<124>> \o Join(Tail(stages))

DirectiveOf(stages) == <<37>> \o Join(stages) \o <<59>>

HeadStages == {S_RAW, S_json, S_base64, S_cdata, S_badform}

ChainStages == {S_RAW, S_base64, S_cdata, S_badclose, S_badenc}

RECURSIVE ChainsOfLen(_)
ChainsOfLen(n) ==
    IF n = 0 THEN {<<>>}
    ELSE {Append(c, e) : c \in ChainsOfLen(n - 1), e \in ChainStages}

Chains(n) == UNION {ChainsOfLen(k) : k \in 0..n}

\* the stage lists of the directives %head|e1|...|ek; with k <= MaxChain
StageLists == {<<h>> \o c : h \in HeadStages, c \in Chains(MaxChain)}

StageTemplates == {DirectiveOf(sl) : sl \in StageLists}

\* "%p:a\;b;"  "%p:a\|b;"  "%p\:x;"
T_semicolon == <<37, 112, 58, 97, 92, 59, 98, 59>>

T_pipe == <<37, 112, 58, 97, 92, 124, 98, 59>>

T_colon == <<37, 112, 92, 58, 120, 59>>

\* templates of the tests and of the documentation that the sets above do not hold:
\* "x%RAW|blargh;"  "x%badform;"  "x%json|badclose;"  "%base64:bad;"  "%RAW|base64:url;"
\* "%cdata:nocrlf;"  "%base64:;"  "%p:a:b;"  "x%%;y"
TestTemplates ==
    {<<120>> \o DirectiveOf(<<S_RAW, S_blargh>>),
     <<120>> \o DirectiveOf(<<S_badform>>),
     <<120>> \o DirectiveOf(<<S_json, S_badclose>>),
     DirectiveOf(<<S_base64 \o <<58>> \o S_bad>>),
     DirectiveOf(<<S_base64 \o <<58>>>>),
     DirectiveOf(<<<<112, 58, 97, 58, 98>>>>),
     DirectiveOf(<<S_RAW, S_base64 \o <<58>> \o S_url>>),
     DirectiveOf(<<S_cdata \o <<58>> \o S_nocrlf>>),
     <<120, 37, 37, 59, 121>>,
     T_semicolon, T_pipe, T_colon}

\* a directive, a literal byte, a directive
PairDirectives ==
    {DirectiveOf(<<S_RAW>>), DirectiveOf(<<S_base64>>), DirectiveOf(<<S_json, S_base64>>),
     <<37, 37, 59>>}

PairTemplates == {d1 \o <<120>> \o d2 : d1, d2 \in PairDirectives}

V_a == Value("string", <<97>>)

V_b == Value("string", <<60, 98>>)

\* a string, a []byte, an io.Reader and an int
OneArgLists ==
    {<<>>, <<V_a>>, <<V_b>>, <<Value("bytes", <<97>>)>>, <<Value("reader", <<97>>)>>,
     <<Value("int", <<0>>)>>}

StringArgLists == {<<>>, <<V_a>>, <<V_a, V_b>>}

\* the (formatBytes, args) pairs InterpWriter is called with
CallInputs ==
    (ShortTemplates \X StringArgLists)
    \cup ((StageTemplates \cup TestTemplates) \X OneArgLists)
    \cup (PairTemplates \X StringArgLists)

State ==
    [buf |-> fbuf, args |-> argsLeft, heap |-> heap, ws |-> ws, closeLog |-> closeLog,
     err |-> err, done |-> done, calls |-> calls, rawFormat |-> lastFormat, pass |-> pass]

Init ==
    /\ formatters = TestFormatters
    /\ encoders = TestEncoders
    /\ hist = <<>>
    /\ running = <<>>
    /\ \E in \in CallInputs, sink \in {BufferSink, WriterAlwaysEOF} :
        LET st == InterpStart(sink, in[1], in[2]) IN
        /\ tmpl = in[1] /\ args0 = in[2]
        /\ fbuf = st.buf /\ argsLeft = st.args /\ heap = st.heap /\ ws = st.ws
        /\ closeLog = st.closeLog /\ err = st.err /\ done = st.done
        /\ calls = st.calls /\ lastFormat = st.rawFormat /\ pass = st.pass

\* one pass of the scan loop of the running InterpWriter call
Pass ==
    /\ ~done
    /\ LET st == InterpPass(Registry, State) IN
        /\ fbuf' = st.buf /\ argsLeft' = st.args /\ heap' = st.heap /\ ws' = st.ws
        /\ closeLog' = st.closeLog /\ err' = st.err /\ done' = st.done
        /\ calls' = st.calls /\ lastFormat' = st.rawFormat /\ pass' = st.pass
    /\ UNCHANGED <<hist, regVars, tmpl, args0, running>>

\* the pass that ends the template: a literal span up to the end of input, or an
\* unterminated directive
PassEnd == Pass /\ lastFormat' = Nil

\* a pass that ends with the escape directive
PassEscape == Pass /\ lastFormat' # Nil /\ SplitFormat(lastFormat').format = <<37>>

\* a pass that ends with a directive that is resolved against the registry
PassDirective == Pass /\ lastFormat' # Nil /\ SplitFormat(lastFormat').format # <<37>>

Next == PassEnd \/ PassEscape \/ PassDirective

Spec == Init /\ [][Next]_vars

\* the loop of InterpWriter keeps running until it returns: weak fairness of Next,
\* written out (a pass is enabled exactly when the call has not returned, and a step of
\* Next is a step that adds one to pass)
FairSpec == Spec /\ ([]<>done \/ []<><<pass' = pass + 1>>_vars)

-----------------------------------------------------------------------------
(* Setting up an Interpolator, then InterpWriter calls that share it *)

MaxAdds == 2

ErrAlreadyExists(name) == [type |-> "ErrAlreadyExists", arg |-> name]

\* NewInterpolator: nothing but "RAW" is registered
NewInterpolator == [formatters |-> <<>>, encoders |-> (S_RAW :> "raw")]

\* NewDefaultInterpolator: "RAW" and the bundled json, base64 and cdata handlers
NewDefaultInterpolator ==
    [formatters |-> (S_json :> "JSON"),
     encoders |-> (S_RAW :> "raw") @@ (S_base64 :> "Base64") @@ (S_cdata :> "CDATA")]

Constructed(ctor) ==
    IF ctor = "NewInterpolator" THEN NewInterpolator ELSE NewDefaultInterpolator

\* the names that have a registration of either kind
Names(reg) == DOMAIN reg.formatters \cup DOMAIN reg.encoders

\* AddFormatter that stores the handler before it looks for an earlier registration
AddFormatterStoringFirst(reg, name, handler) ==
    IF name \in Names(reg)
    THEN [reg |-> [formatters |-> (name :> handler) @@ reg.formatters,
                   encoders |-> [k \in DOMAIN reg.encoders \ {name} |-> reg.encoders[k]]],
          err |-> ErrAlreadyExists(name)]
    ELSE [reg |-> [reg EXCEPT !.formatters = (name :> handler) @@ @], err |-> NoErr]

\* i.AddFormatter(name, handler)
AddFormatter(reg, name, handler) ==
    IF name \in Names(reg) THEN [reg |-> reg, err |-> ErrAlreadyExists(name)]
    ELSE [reg |-> [reg EXCEPT !.formatters = (name :> handler) @@ @], err |-> NoErr]

\* AddEncoder looking for an earlier registration among the encoders only
AddEncoderOwnKind(reg, name, handler) ==
    IF name \in DOMAIN reg.encoders THEN [reg |-> reg, err |-> ErrAlreadyExists(name)]
    ELSE [reg |-> [reg EXCEPT !.encoders = (name :> handler) @@ @], err |-> NoErr]

\* i.AddEncoder(name, handler)
AddEncoder(reg, name, handler) ==
    IF name \in Names(reg) THEN [reg |-> reg, err |-> ErrAlreadyExists(name)]
    ELSE [reg |-> [reg EXCEPT !.encoders = (name :> handler) @@ @], err |-> NoErr]

\* a pass of InterpWriter that stores the name it failed to look up
InterpolatorAfterPassStoring(reg, st) ==
    LET n == InterpPass(reg, st) IN
    IF n.err.type \in {"ErrUnknownFormatter", "ErrUnknownEncoder"}
    THEN [reg EXCEPT !.encoders = (n.err.arg :> "raw") @@ @]
    ELSE reg

\* the Interpolator after a pass of InterpWriter: the loop reads the registrations by
\* name and has no statement that assigns to them
InterpolatorAfterPass(reg, st) == reg

\* the (name, handler) pairs the setup registers
FormatterInputs == {<<S_json, "JSON">>, <<S_p, "p">>, <<S_p, "JSON">>, <<S_base64, "JSON">>}

EncoderInputs == {<<S_base64, "Base64">>, <<S_json, "Base64">>, <<S_RAW, "raw">>, <<S_p, "raw">>}

\* the (w, formatBytes, args) of the calls that share the Interpolator:
\* "%p;x%json|base64;"  "x%RAW;%%;"  "%base64;"
SharedInputs ==
    {<<BufferSink, DirectiveOf(<<S_p>>) \o <<120>> \o DirectiveOf(<<S_json, S_base64>>),
       <<V_a, V_b>>>>,
     <<BufferSink, <<120>> \o DirectiveOf(<<S_RAW>>) \o <<37, 37, 59>>, <<V_a>>>>,
     <<WriterAlwaysEOF, DirectiveOf(<<S_base64>>), <<V_a>>>>}

RegOp(op, name, handler, e) == [op |-> op, name |-> name, handler |-> handler, err |-> e]

\* a call in progress: what it was given, the Interpolator as it was when the call
\* began, and the state of its loop
Call(in, reg) ==
    [sink |-> in[1], tmpl |-> in[2], args |-> in[3], reg |-> reg,
     st |-> InterpStart(in[1], in[2], in[3])]

InitRegistry ==
    /\ \E ctor \in {"NewInterpolator", "NewDefaultInterpolator"} :
        /\ formatters = Constructed(ctor).formatters
        /\ encoders = Constructed(ctor).encoders
        /\ hist = <<RegOp(ctor, <<>>, "", NoErr)>>
    /\ running = <<>>
    /\ heap = <<>> /\ ws = NewWriterStack(BaseId) /\ closeLog = <<>> /\ err = NoErr
    /\ tmpl = <<>> /\ args0 = <<>> /\ fbuf = <<>> /\ argsLeft = <<>> /\ calls = <<>>
    /\ lastFormat = Nil /\ pass = 0 /\ done = TRUE

RegAddFormatter(name, handler) ==
    /\ running = <<>>
    /\ Len(hist) <= MaxAdds
    /\ LET r == AddFormatter(Registry, name, handler) IN
        /\ formatters' = r.reg.formatters
        /\ encoders' = r.reg.encoders
        /\ err' = r.err
        /\ hist' = Append(hist, RegOp("AddFormatter", name, handler, r.err))
    /\ UNCHANGED <<heap, ws, closeLog, callVars, running>>

RegAddEncoder(name, handler) ==
    /\ running = <<>>
    /\ Len(hist) <= MaxAdds
    /\ LET r == AddEncoder(Registry, name, handler) IN
        /\ formatters' = r.reg.formatters
        /\ encoders' = r.reg.encoders
        /\ err' = r.err
        /\ hist' = Append(hist, RegOp("AddEncoder", name, handler, r.err))
    /\ UNCHANGED <<heap, ws, closeLog, callVars, running>>

\* the setup is over: two InterpWriter calls begin on the Interpolator
StartCalls(in1, in2) ==
    /\ running = <<>>
    /\ running' = <<Call(in1, Registry), Call(in2, Registry)>>
    /\ UNCHANGED <<stackVars, hist, regVars, callVars>>

\* one pass of the scan loop of call c, the other call being wherever it is
StepCall(c) ==
    /\ c \in 1..Len(running)
    /\ ~running[c].st.done
    /\ running' = [running EXCEPT ![c].st = InterpPass(Registry, @)]
    /\ LET reg == InterpolatorAfterPass(Registry, running[c].st) IN
        /\ formatters' = reg.formatters
        /\ encoders' = reg.encoders
    /\ UNCHANGED <<stackVars, hist, callVars>>

NextRegistry ==
    \/ \E in \in FormatterInputs : RegAddFormatter(in[1], in[2])
    \/ \E in \in EncoderInputs : RegAddEncoder(in[1], in[2])
    \/ \E in1, in2 \in SharedInputs : StartCalls(in1, in2)
    \/ \E c \in 1..2 : StepCall(c)

SpecRegistry == InitRegistry /\ [][NextRegistry]_vars

-----------------------------------------------------------------------------
(* Direct use of the scanner: reads and splits on a buffer, as the engine makes them *)

\* the delimiters the engine scans for: '%', ';' and '|'
ScanDelims == {37, 59, 124}

ScanOp(op, delim, input, result, e) ==
    [op |-> op, delim |-> delim, input |-> input, result |-> result, err |-> e]

\* a bytes.Buffer over any input of at most MaxLen bytes
InitScan ==
    /\ tmpl \in Strings(MaxLen)
    /\ fbuf = tmpl
    /\ hist = <<>>
    /\ err = NoErr
    /\ heap = <<>> /\ ws = NewWriterStack(BaseId) /\ closeLog = <<>>
    /\ formatters = <<>> /\ encoders = <<>>
    /\ args0 = <<>> /\ argsLeft = <<>> /\ calls = <<>>
    /\ lastFormat = Nil /\ pass = 0 /\ done = TRUE
    /\ running = <<>>

\* readBytesUntilUnescDelim(buf, delim), on a buffer that has not reported io.EOF
ScanRead(delim) ==
    /\ err = NoErr
    /\ LET r == readBytesUntilUnescDelim(fbuf, delim) IN
        /\ fbuf' = r.rest
        /\ err' = r.err
        /\ hist' = <<ScanOp("read", delim, fbuf, r.result, r.err)>>
    /\ UNCHANGED <<heap, ws, closeLog, regVars, tmpl, args0, argsLeft, calls, lastFormat,
                   pass, done, running>>

\* splitHonoringEscaping(buf, delim), which reads the buffer to its end
ScanSplit(delim) ==
    /\ err = NoErr
    /\ fbuf' = <<>>
    /\ err' = EOF
    /\ hist' = <<ScanOp("split", delim, fbuf, splitHonoringEscaping(fbuf, delim), EOF)>>
    /\ UNCHANGED <<heap, ws, closeLog, regVars, tmpl, args0, argsLeft, calls, lastFormat,
                   pass, done, running>>

NextScan ==
    \/ \E delim \in ScanDelims : ScanRead(delim)
    \/ \E delim \in ScanDelims : ScanSplit(delim)

SpecScan == InitScan /\ [][NextScan]_vars

-----------------------------------------------------------------------------
(* Properties of the WriterStack, checked under SpecStack *)

IsPrefix(a, b) == Len(a) <= Len(b) /\ SubSeq(b, 1, Len(a)) = a

LastOpIs(op) == hist # <<>> /\ hist[Len(hist)].op = op

\* the closable layers of the stack, most recently pushed first
ClosersTopDown == Reverse(SelectSeq(ws.components, LAMBDA id : heap[id].isCloser))

\* C1: one Finish call invokes Close on the closable layers in the reverse of push order,
\* each at most once, and skips the layers that are not closers without error: the Close
\* calls it made are a prefix of the closable layers taken top-down, and all of them when
\* it returns nil.
C1_FinishClosesInReversePushOrder ==
    LastOpIs("Finish") =>
        /\ IsPrefix(closeLog, ClosersTopDown)
        /\ (err = NoErr => closeLog = ClosersTopDown)
        /\ \A i, j \in 1..Len(closeLog) : closeLog[i] = closeLog[j] => i = j

\* a Finish that returned nil on a stack with two closable layers and a layer that is
\* not a closer
C1_Witness ==
    /\ LastOpIs("Finish")
    /\ err = NoErr
    /\ Len(closeLog) >= 2
    /\ \E i \in 1..Len(ws.components) : ~heap[ws.components[i]].isCloser

\* C4: the base sink is never in the layer list, and Finish never invokes Close on it,
\* whether or not it is a closer.
C4_BaseSinkNeverListedNorClosed ==
    /\ \A i \in 1..Len(ws.components) : ws.components[i] # BaseId
    /\ heap[BaseId].closes = 0

\* a Finish that closed a layer of a stack whose base sink is itself a closer
C4_Witness ==
    /\ LastOpIs("Finish")
    /\ heap[BaseId].isCloser
    /\ closeLog # <<>>
    /\ heap[BaseId].data # <<>>

RECURSIVE Written(_)
\* the bytes of the Write calls of a history, concatenated
Written(h) ==
    IF h = <<>> THEN <<>>
    ELSE (IF h[1].op = "Write" THEN h[1].p ELSE <<>>) \o Written(Tail(h))

\* two identical base64 layers pushed on a sink that accepts writes, then Write calls only
TwoBase64Then(n) ==
    /\ Len(hist) >= 2 + n
    /\ hist[1] = Op("Push", "Base64", hist[1].args, <<>>)
    /\ hist[1].args \in {Nil, S_url}
    /\ hist[2] = hist[1]
    /\ heap[BaseId].kind = "buffer"
    /\ \A i \in 3..(Len(hist) - n) : hist[i].op = "Write"

DoubleBase64(p) == B64Encode(heap[2].enc, B64Encode(heap[2].enc, p))

\* C2: with two identical base64 layers, writing and then calling Finish delivers the
\* complete double encoding of everything written to the base sink and leaves no byte
\* buffered in either layer ("a" gives "WVE9PQ=="); closing the same two layers in push
\* order instead, when the top layer holds trailing bytes, leaves a byte buffered in the
\* lower layer that never reaches the sink, so the sink does not hold the double encoding
\* ("a" gives only "WVE9").
C2_DoubleBase64NeedsReverseClose ==
    /\ (TwoBase64Then(1) /\ LastOpIs("Finish")) =>
        /\ err = NoErr
        /\ heap[BaseId].data = DoubleBase64(Written(hist))
        /\ heap[2].data = <<>> /\ heap[3].data = <<>>
        /\ (Written(hist) = <<97>> /\ hist[1].args = Nil
                => heap[BaseId].data = <<87, 86, 69, 57, 80, 81, 61, 61>>)
    /\ (TwoBase64Then(0) /\ LastOpIs("Write") /\ heap[3].data # <<>>) =>
        LET f == FinishForward(heap, ws) IN
        /\ f.h[2].data # <<>>
        /\ f.h[BaseId].data # DoubleBase64(Written(hist))
        /\ Len(f.h[BaseId].data) <= Len(DoubleBase64(Written(hist)))
        /\ (Written(hist) = <<97>> /\ hist[1].args = Nil
                => f.h[BaseId].data = <<87, 86, 69, 57>>)

\* "a" written through two standard base64 layers and finished: the sink holds "WVE9PQ=="
C2_Witness ==
    /\ TwoBase64Then(1) /\ LastOpIs("Finish")
    /\ hist[1].args = Nil
    /\ Written(hist) = <<97>>
    /\ heap[BaseId].data = <<87, 86, 69, 57, 80, 81, 61, 61>>

-----------------------------------------------------------------------------
(* Properties of directives, checked under Spec *)

\* the pass just taken ended with a directive that is not the escape
AfterDirective == lastFormat # Nil /\ SplitFormat(lastFormat).format # <<37>>

Stages == splitHonoringEscaping(lastFormat, 124)

HeadStage == SplitFormat(Stages[1])

HeadIsFormatter == HeadStage.format \in DOMAIN formatters

LastCall == calls[Len(calls)]

\* the kind of writer object each registered encoder returns
KindOf(enc) ==
    IF enc = "raw" THEN "raw"
    ELSE IF enc = "Base64" THEN "base64"
    ELSE IF enc = "CDATA" THEN "cdata"
    ELSE "failclose"

\* the layer beneath component i of the stack
Beneath(i) == IF i = 1 THEN BaseId ELSE ws.components[i - 1]

RECURSIVE CDATAText(_, _)
\* the CDATA encoding of a whole byte string
CDATAText(by, encodeCRLF) ==
    IF by = <<>> THEN <<>>
    ELSE (IF CDATASpecial(Head(by), encodeCRLF) THEN CDATAEntity(Head(by)) ELSE <<Head(by)>>)
         \o CDATAText(Tail(by), encodeCRLF)

\* the whole-string encoding the stage with this specification stands for
EncodedBy(stage, by) ==
    LET e == parseEncoder(encoders, stage) IN
    IF e.encoder = "Base64"
    THEN B64Encode(IF e.formatArgs = S_url THEN "url" ELSE "std", by)
    ELSE IF e.encoder = "CDATA" THEN CDATAText(by, e.formatArgs = Nil)
    ELSE by

RECURSIVE ThroughChain(_, _, _)
\* by encoded by stage i, then by stage i + 1, and so on to the last stage
ThroughChain(stages, i, by) ==
    IF i > Len(stages) THEN by
    ELSE ThroughChain(stages, i + 1, EncodedBy(stages[i], by))

\* what the head handler of the last call hands to the layer beneath it
HeadOutput ==
    IF LastCall.kind = "encoder" THEN EncodedBy(Stages[1], LastCall.val.data)
    ELSE IF formatters[LastCall.name] = "JSON" THEN JSONEncode(LastCall.val)
    ELSE (IF LastCall.params = Nil THEN <<>> ELSE LastCall.params) \o LastCall.val.data

\* the first pass of a call ended with a directive whose head handler ran and that
\* succeeded, on a sink that accepts writes
FirstDirectiveDone ==
    /\ pass = 1 /\ AfterDirective /\ err = NoErr /\ heap[BaseId].kind = "buffer"
    /\ calls # <<>>

\* C3: for a directive with stages s0 .. s(n-1) the chain encoders are pushed in the
\* order s(n-1), ..., s1 (the k-th layer pushed is the writer of stage s(n-k), wrapped
\* around the layer pushed before it, the first around the destination sink), and
\* the sink receives the head's bytes encoded by s1, then s2, and so on to s(n-1).
C3_ChainPushedDescendingAppliedLeftToRight ==
    FirstDirectiveDone =>
        LET n == Len(Stages) IN
        /\ Len(ws.components) >= n - 1
        /\ \A k \in 1..(n - 1) :
            /\ heap[ws.components[k]].kind
                   = KindOf(parseEncoder(encoders, Stages[n + 1 - k]).encoder)
            /\ heap[ws.components[k]].inner = Beneath(k)
        /\ heap[BaseId].data = readBytesUntilUnescDelim(tmpl, 37).result
                               \o ThroughChain(Stages, 2, HeadOutput)

\* "%RAW|cdata|base64;" with "<b": cdata and base64 do not commute on this value
C3_Witness ==
    /\ FirstDirectiveDone
    /\ Len(Stages) = 3
    /\ Stages[2] = S_cdata /\ Stages[3] = S_base64
    /\ LastCall.val = V_b
    /\ heap[BaseId].data = B64Encode("std", S_lt \o <<98>>)
    /\ heap[BaseId].data # CDATAText(B64Encode("std", V_b.data), TRUE)

\* C5: in Finish the first Close that returns an error stops finalization: that error
\* is what the directive returns, every layer closed in the call was closed once, and
\* the closable layers beneath the failing one are not closed.  Stated of every pass
\* whose Finish closed a layer of the pipeline built in that pass, whatever the head.
C5_FirstCloseErrorStopsFinish ==
    [][(closeLog' # <<>> /\ closeLog'[1] > Len(heap)) =>
        LET closers == SelectSeq(ws'.components, LAMBDA id : heap'[id].isCloser)
            last == closeLog'[Len(closeLog')]
        IN  /\ IsPrefix(closeLog', Reverse(closers))
            /\ \A i \in 1..Len(closers) :
                heap'[closers[i]].closes
                    = IF \E j \in 1..Len(closeLog') : closeLog'[j] = closers[i] THEN 1 ELSE 0
            /\ (err' = NoErr => closeLog' = Reverse(closers))
            /\ (err' # NoErr =>
                    /\ done'
                    /\ err' = IF heap'[last].kind = "failclose" THEN ErrBadClose
                              ELSE heap'[last].err)
            /\ \A j \in 1..Len(closeLog') :
                heap'[closeLog'[j]].kind = "failclose"
                    => (j = Len(closeLog') /\ err' = ErrBadClose)
      ]_vars

\* "%json|badclose|base64;": the Close of badclose failed and the base64 layer beneath
\* it, pushed earlier, was not closed
C5_Witness ==
    /\ AfterDirective /\ HeadIsFormatter
    /\ err = ErrBadClose
    /\ Len(ws.components) = 2
    /\ closeLog = <<ws.components[2]>>
    /\ heap[ws.components[1]].isCloser
    /\ heap[ws.components[1]].closes = 0

\* C6: when the head stage resolves to an Encoder it is pushed last, after all chain
\* encoders, so it is the top layer and the current writer, and the raw bytes of the
\* argument are written into it; when the head resolves to a Formatter it is called
\* with the pipeline as it stands and the layer list holds the chain encoders only.
\* Stated of the directives of a call in which every pass so far ran a head handler.
C6_HeadEncoderPushedLastFormatterNoLayer ==
    (AfterDirective /\ err = NoErr /\ Len(calls) = pass) =>
        LET n == Len(Stages) IN
        IF HeadIsFormatter
        THEN /\ Len(ws.components) = n - 1
             /\ ws.Writer = Beneath(n)
             /\ LastCall.kind = "formatter"
        ELSE /\ Len(ws.components) = n
             /\ ws.Writer = ws.components[n]
             /\ heap[ws.components[n]].kind = KindOf(encoders[HeadStage.format])
             /\ heap[ws.components[n]].inner = Beneath(n)
             /\ LastCall.kind = "encoder"
             /\ LastCall.val.shape \in {"string", "bytes", "reader"}
             /\ (pass = 1 /\ heap[BaseId].kind = "buffer") =>
                    heap[BaseId].data
                        = readBytesUntilUnescDelim(tmpl, 37).result
                          \o ThroughChain(Stages, 2, EncodedBy(Stages[1], LastCall.val.data))

\* "%base64|cdata;": the head is the Encoder base64, on top of the cdata layer
C6_Witness ==
    /\ FirstDirectiveDone
    /\ ~HeadIsFormatter
    /\ Len(Stages) = 2
    /\ heap[ws.Writer].kind = "base64"
    /\ heap[ws.Writer].inner = ws.components[1]
    /\ heap[BaseId].data # <<>>

\* C7: output reaches the destination sink in template order.  In every pass, what the
\* sink held stays as a prefix of what it holds; the layers of the pipelines built for
\* earlier directives are neither written to nor closed; and a directive that succeeds
\* runs on layers created in its own pass and leaves no byte buffered in any of them,
\* so that all its bytes are in the sink before the next pass begins.
C7_OutputInTemplateOrder ==
    [][/\ IsPrefix(heap[BaseId].data, heap'[BaseId].data)
       /\ Len(heap') >= Len(heap)
       /\ \A id \in 2..Len(heap) : heap'[id] = heap[id]
       /\ (lastFormat' # Nil /\ SplitFormat(lastFormat').format # <<37>> /\ err' = NoErr) =>
            \A i \in 1..Len(ws'.components) :
                /\ ws'.components[i] > Len(heap)
                /\ heap'[ws'.components[i]].data = <<>>
      ]_vars

\* the second directive of a template succeeded on a pipeline of its own, after the
\* base64 layer of the first directive was closed
C7_Witness ==
    /\ pass = 2 /\ AfterDirective /\ err = NoErr
    /\ Len(heap) >= 3
    /\ heap[2].kind = "base64" /\ heap[2].closes = 1
    /\ ws.components # <<>>
    /\ ws.components[1] > 2
    /\ heap[BaseId].data # <<>>

-----------------------------------------------------------------------------
(* Properties of the scan, checked under Spec *)

Has(t, b) == \E i \in 1..Len(t) : t[i] = b

RECURSIVE DropBackslashes(_)
\* t with every backslash removed and the byte after it kept
DropBackslashes(t) ==
    IF t = <<>> THEN <<>>
    ELSE IF t[1] # 92 THEN <<t[1]>> \o DropBackslashes(Tail(t))
    ELSE IF Len(t) = 1 THEN <<>>
    ELSE <<t[2]>> \o DropBackslashes(SubSeq(t, 3, Len(t)))

\* what a call on a template without '%' comes to: one pass, no handler called, no
\* pipeline built, no argument taken, and one Write of `written` to the sink
LiteralOnly(written) ==
    /\ pass = 1 /\ calls = <<>> /\ Len(heap) = 1
    /\ argsLeft = args0
    /\ IF heap[BaseId].kind = "buffer"
       THEN heap[BaseId].data = written /\ err = NoErr
       ELSE err = IF written = <<>> THEN NoErr ELSE EOF

\* C8 as stated: for every template that contains no '%' byte, InterpWriter writes exactly
\* the template bytes, unchanged, to the sink and consumes no argument.
C8_NoPercentWrittenVerbatim ==
    (done /\ ~Has(tmpl, 37) /\ heap[BaseId].kind = "buffer") =>
        /\ heap[BaseId].data = tmpl
        /\ argsLeft = args0

\* C8 amended: for every template that contains no '%' byte and no backslash, InterpWriter
\* makes one Write of exactly the template bytes to the sink, returns what that Write
\* returned, and consumes no argument; in a template without '%' that has backslashes,
\* each backslash is removed and the byte after it is written.
C8_NoPercentNoBackslashWrittenVerbatim ==
    (done /\ ~Has(tmpl, 37)) =>
        /\ LiteralOnly(DropBackslashes(tmpl))
        /\ (~Has(tmpl, 92) => LiteralOnly(tmpl))

\* a template of delimiters and letters without '%' or backslash, written with
\* arguments on offer
C8_Witness ==
    /\ done /\ ~Has(tmpl, 37) /\ ~Has(tmpl, 92)
    /\ Len(tmpl) >= 3 /\ Has(tmpl, 59) /\ Has(tmpl, 124)
    /\ args0 # <<>>
    /\ heap[BaseId].data = tmpl

\* C9 as stated: inside a directive a backslash before ':' or ';' is removed and the byte
\* after it is literal content of the name or the arguments: "%p:a\;b;" calls p with the
\* arguments "a;b", and "%p\:x;" is one stage named "p:x" with no arguments, so that p
\* is not called and the lookup of "p:x" fails.
C9_EscapedDelimitersAreLiteral ==
    (done /\ args0 = <<V_a>>) =>
        /\ (tmpl = T_semicolon =>
                calls = <<[name |-> S_p, kind |-> "formatter", val |-> V_a,
                           params |-> <<97, 59, 98>>]>>)
        /\ (tmpl = T_colon =>
                /\ calls = <<>>
                /\ err = ErrUnknownFormatter(<<112, 58, 120>>))

RECURSIVE RemoveEscapes(_)
\* the template with every escape directive "%%;" taken out
RemoveEscapes(t) ==
    IF t = <<>> THEN <<>>
    ELSE IF t[1] = 92
    THEN (IF Len(t) = 1 THEN t
          ELSE SubSeq(t, 1, 2) \o RemoveEscapes(SubSeq(t, 3, Len(t))))
    ELSE IF t[1] # 37 THEN <<t[1]>> \o RemoveEscapes(Tail(t))
    ELSE IF Len(t) >= 3 /\ t[2] = 37 /\ t[3] = 59 THEN RemoveEscapes(SubSeq(t, 4, Len(t)))
    ELSE LET rest == readBytesUntilUnescDelim(Tail(t), 59).rest IN
         SubSeq(t, 1, Len(t) - Len(rest)) \o RemoveEscapes(rest)

\* the finished call against the call on the template without its escape directives, on
\* a sink of the same kind: the handlers called, with their values and arguments, are
\* the same up to the point where the call stopped; on a sink that accepts writes the
\* calls, the error and the arguments left over are the same
SameAsWithoutEscapes ==
    LET r == InterpWriter(Registry,
                          IF heap[BaseId].kind = "buffer" THEN BufferSink
                          ELSE WriterAlwaysEOF,
                          RemoveEscapes(tmpl), args0)
    IN  /\ IsPrefix(calls, r.calls)
        /\ (heap[BaseId].kind = "buffer" =>
                calls = r.calls /\ err = r.err /\ argsLeft = r.args)

\* C10: a pass that ends with the escape directive writes the literal span before it and
\* then exactly one '%' to the sink, calls no handler and leaves the argument cursor
\* where it was; and every finished call hands the non-escape directives the arguments
\* they get when the escape directives "%%;" are removed from the template.
C10_EscapeWritesPercentKeepsCursor ==
    /\ ~done =>
        LET n == InterpPass(Registry, State) IN
        (n.rawFormat # Nil /\ SplitFormat(n.rawFormat).format = <<37>>) =>
            /\ n.args = argsLeft
            /\ n.calls = calls
            /\ Len(n.heap) = Len(heap)
            /\ (heap[BaseId].kind = "buffer" =>
                    n.heap[BaseId].data
                        = heap[BaseId].data \o readBytesUntilUnescDelim(fbuf, 37).result
                          \o <<37>>)
    /\ done => SameAsWithoutEscapes

\* a finished call whose template starts with "%%;" and whose later directive got the
\* first argument
C10_Witness ==
    /\ done /\ err = NoErr
    /\ Len(tmpl) > 3 /\ SubSeq(tmpl, 1, 3) = <<37, 37, 59>>
    /\ calls # <<>> /\ args0 # <<>>
    /\ calls[1].val = args0[1]
    /\ heap[BaseId].data[1] = 37

-----------------------------------------------------------------------------
(* Properties of the escape test, of arguments and of errors, checked under Spec *)

\* C11 as stated: a directive is the escape only when its whole unescaped content is the
\* one byte '%'; any other directive whose name is '%', such as "%%:x;" or "%%|RAW;", is
\* looked up in the registry, where '%' is not registered, so the call fails with
\* ErrUnknownFormatter("%").
C11_EscapeOnlyWhenWholeContentIsPercent ==
    (lastFormat # Nil /\ lastFormat # <<37>> /\ HeadStage.format = <<37>>
     /\ heap[BaseId].kind = "buffer") =>
        (done /\ err = ErrUnknownFormatter(<<37>>))

\* the arguments of the call from position k on
ArgsFrom(k) == SubSeq(args0, k, Len(args0))

\* C12: arguments are consumed strictly left to right, one per non-escape directive that
\* reaches its head handler: the k-th handler call of a call gets the k-th argument, and
\* while no error has occurred the arguments left are exactly those after the ones
\* handed out, so that no argument is passed twice or skipped.
C12_ArgumentsConsumedLeftToRight ==
    /\ Len(calls) <= Len(args0)
    /\ \A k \in 1..Len(calls) : calls[k].val = args0[k]
    /\ (err = NoErr => argsLeft = ArgsFrom(Len(calls) + 1))
    /\ \E k \in 1..(Len(args0) + 1) : argsLeft = ArgsFrom(k)

\* two directives of a template succeeded: the first got "a", the second "<b"
C12_Witness ==
    /\ done /\ err = NoErr
    /\ args0 = <<V_a, V_b>>
    /\ Len(calls) = 2
    /\ calls[1].val = V_a /\ calls[2].val = V_b
    /\ argsLeft = <<>>

\* C13 as stated: when a non-escape directive is reached and the argument list is
\* exhausted, the head handler is still invoked and receives the NotGiven token as its
\* value, and the engine writes no text of its own: a single-stage directive with a
\* registered head, in a call without arguments, makes one handler call with NotGiven
\* ("%RAW;" then fails with ErrNotGiven).
C13_ExhaustedArgumentsGiveNotGiven ==
    (pass = 1 /\ AfterDirective /\ args0 = <<>> /\ Len(Stages) = 1
     /\ (HeadIsFormatter \/ HeadStage = [format |-> S_RAW, formatArgs |-> Nil])) =>
        /\ Len(calls) = 1
        /\ calls[1].val = NotGiven
        /\ (HeadStage.format = S_RAW => err = ErrNotGiven)

\* the first pass ended with the single-stage directive "%RAW;", whose head is an Encoder
RawDirectiveDone ==
    /\ pass = 1 /\ AfterDirective /\ Len(Stages) = 1
    /\ HeadStage = [format |-> S_RAW, formatArgs |-> Nil]

\* what the raw path does with the value val
RawPathOutcome(val) ==
    IF val.shape \in {"string", "bytes", "reader"}
    THEN heap[BaseId].kind = "buffer" =>
            /\ err = NoErr
            /\ heap[BaseId].data = readBytesUntilUnescDelim(tmpl, 37).result \o val.data
    ELSE IF val.shape = "NotGiven" THEN err = ErrNotGiven
    ELSE err = ErrNoDefaultHandling

\* C14 as stated: on the head-is-Encoder raw path a string, a byte sequence or a reader is
\* written through the pipeline, the NotGiven token (an exhausted argument list) fails
\* with ErrNotGiven, also on a sink that fails every non-empty write, any other value
\* fails with ErrNoDefaultHandling, and the two errors are distinct.
C14_RawPathShapes ==
    /\ ErrNotGiven # ErrNoDefaultHandling
    /\ RawDirectiveDone => RawPathOutcome(IF args0 = <<>> THEN NotGiven ELSE args0[1])

\* the unread template starts with a literal span that the sink accepts, followed by a
\* '%' that opens a directive with no unescaped ';' before the end of input
UnterminatedNext ==
    LET lit == readBytesUntilUnescDelim(fbuf, 37) IN
    /\ ~done
    /\ lit.err = NoErr
    /\ (heap[BaseId].kind = "buffer" \/ lit.result = <<>>)
    /\ readBytesUntilUnescDelim(lit.rest, 59).err = EOF

\* what the pass of an unterminated directive comes to: the call ends with
\* ErrIncompleteFormatString, the sink got the literal span and nothing else, no
\* handler was called, no pipeline built and no argument taken
IncompleteOutcome(n) ==
    /\ n.done /\ n.err = ErrIncompleteFormatString
    /\ n.args = argsLeft /\ n.calls = calls
    /\ Len(n.heap) = Len(heap)
    /\ n.heap[BaseId].data
           = IF heap[BaseId].kind = "buffer"
             THEN heap[BaseId].data \o readBytesUntilUnescDelim(fbuf, 37).result
             ELSE <<>>

\* C15: a template in which a '%' opens a directive that has no unescaped ';' before the
\* input ends fails with ErrIncompleteFormatString; the literal span before that '%' has
\* been written to the sink, nothing is written after it, no handler is invoked and no
\* argument is consumed for that directive; and the call ends with this error in no
\* other case.
C15_UnterminatedDirectiveFails ==
    /\ UnterminatedNext => IncompleteOutcome(InterpPass(Registry, State))
    /\ (~done /\ ~UnterminatedNext) =>
            InterpPass(Registry, State).err # ErrIncompleteFormatString
    /\ (done /\ err = ErrIncompleteFormatString) => (fbuf = <<>> /\ lastFormat = Nil)

\* a call that ended with ErrIncompleteFormatString after writing a literal span, with
\* its argument untouched
C15_Witness ==
    /\ done /\ err = ErrIncompleteFormatString
    /\ heap[BaseId].data # <<>>
    /\ args0 # <<>> /\ argsLeft = args0
    /\ calls = <<>>

\* the directive the next pass reads, when the sink accepts the literal span before it
\* and the directive is terminated and is not taken as the escape
NextDirective == readBytesUntilUnescDelim(readBytesUntilUnescDelim(fbuf, 37).rest, 59)

DirectiveNext ==
    LET lit == readBytesUntilUnescDelim(fbuf, 37) IN
    /\ ~done
    /\ lit.err = NoErr
    /\ (heap[BaseId].kind = "buffer" \/ lit.result = <<>>)
    /\ NextDirective.err = NoErr
    /\ SplitFormat(NextDirective.result).format # <<37>>

NextStages == splitHonoringEscaping(NextDirective.result, 124)

NextName(i) == SplitFormat(NextStages[i]).format

HeadUnknown == NextName(1) \notin DOMAIN formatters /\ NextName(1) \notin DOMAIN encoders

ChainUnknown(i) == NextName(i) \notin DOMAIN encoders

\* what the pass of a directive with an unregistered name comes to: the call ends with e,
\* and apart from the literal span written before the directive nothing has happened: no
\* argument taken, no handler called, no writer object created, no byte written
UnknownNameOutcome(n, e) ==
    /\ n.done /\ n.err = e
    /\ n.args = argsLeft /\ n.calls = calls
    /\ Len(n.heap) = Len(heap)
    /\ n.heap[BaseId].data
           = IF heap[BaseId].kind = "buffer"
             THEN heap[BaseId].data \o readBytesUntilUnescDelim(fbuf, 37).result
             ELSE <<>>

\* C16: a stage name with no registration fails the call with an error carrying that
\* name, ErrUnknownFormatter(name) for the head and ErrUnknownEncoder(name) for a chain
\* stage (the leftmost unregistered one); the error is raised before any argument is
\* examined and before any byte of the directive is written, whatever the arguments are.
C16_UnknownNameFailsBeforeArguments ==
    DirectiveNext =>
        IF HeadUnknown
        THEN UnknownNameOutcome(InterpPass(Registry, State), ErrUnknownFormatter(NextName(1)))
        ELSE \A i \in 2..Len(NextStages) :
                (ChainUnknown(i) /\ \A j \in 2..(i - 1) : ~ChainUnknown(j)) =>
                    UnknownNameOutcome(InterpPass(Registry, State),
                                       ErrUnknownEncoder(NextName(i)))

\* "x%RAW|blargh;" with the argument 0: ErrUnknownEncoder("blargh"), the argument untouched
C16_Witness ==
    /\ done /\ err = ErrUnknownEncoder(S_blargh)
    /\ args0 = <<Value("int", <<0>>)>> /\ argsLeft = args0
    /\ calls = <<>>
    /\ heap[BaseId].data = <<120>>


-----------------------------------------------------------------------------
(* Properties of the registry, checked under SpecRegistry *)

SetUp == hist # <<>> /\ hist[1].op \in {"NewInterpolator", "NewDefaultInterpolator"}

\* the name of the i-th setup call had a registration when the call was made: the
\* constructor preloaded it, or an earlier AddFormatter or AddEncoder call registered it
TakenBefore(i) ==
    \/ hist[i].name \in Names(Constructed(hist[1].op))
    \/ \E j \in 2..(i - 1) : hist[j].name = hist[i].name /\ hist[j].err = NoErr

\* the handler registered under a name, whichever kind it is
HandlerOf(reg, name) ==
    IF name \in DOMAIN reg.formatters THEN <<"AddFormatter", reg.formatters[name]>>
    ELSE <<"AddEncoder", reg.encoders[name]>>

\* C17: formatters and encoders share one namespace. An AddFormatter or AddEncoder call
\* whose name already has a registration (preloaded by the constructor, or made by an
\* earlier call of either kind) fails with ErrAlreadyExists of that name, whatever handler
\* it brings, and the name keeps the one registration it had: no name is both a formatter
\* and an encoder, and each name registered by a call holds that call's handler.
C17_OneNamespaceForFormattersAndEncoders ==
    SetUp =>
        /\ DOMAIN formatters \cap DOMAIN encoders = {}
        /\ \A i \in 2..Len(hist) :
            /\ TakenBefore(i) => hist[i].err = ErrAlreadyExists(hist[i].name)
            /\ hist[i].err = NoErr =>
                HandlerOf(Registry, hist[i].name) = <<hist[i].op, hist[i].handler>>

\* a name registered as a formatter was refused as an encoder, and a preloaded name was
\* refused too
C17_Witness ==
    /\ SetUp
    /\ \E i, j \in 2..Len(hist) :
        /\ j < i
        /\ hist[j].op = "AddFormatter" /\ hist[j].err = NoErr
        /\ hist[i].op = "AddEncoder" /\ hist[i].name = hist[j].name
        /\ hist[i].handler # hist[j].handler
        /\ hist[i].err = ErrAlreadyExists(hist[i].name)


-----------------------------------------------------------------------------
(* Properties of a failing call, checked under Spec *)

\* the call as it would go on from here if nothing failed: the destination accepts
\* every write, and the handlers that only fail are replaced by ones that work
Mended(reg) ==
    [formatters |-> [k \in DOMAIN reg.formatters |->
                        IF reg.formatters[k] = "badFormatter" THEN "JSON"
                        ELSE reg.formatters[k]],
     encoders |-> [k \in DOMAIN reg.encoders |->
                        IF reg.encoders[k] \in {"badEncoder", "badCloseEncoder"} THEN "raw"
                        ELSE reg.encoders[k]]]

MendedRun ==
    InterpRun(Mended(Registry), [State EXCEPT !.heap[BaseId].kind = "buffer"])

\* the closable layers of the pipeline of state n beneath the last one closed are not
\* closed, and the error of n is the error of that last Close
StoppedAtFailingClose(n) ==
    LET last == n.closeLog[Len(n.closeLog)] IN
    /\ n.err = IF n.heap[last].kind = "failclose" THEN ErrBadClose ELSE n.heap[last].err
    /\ \A j \in 1..Len(n.ws.components) :
        LET id == n.ws.components[j] IN
        (id < last /\ n.heap[id].isCloser) => n.heap[id].closes = 0

\* the pass that starts in the current state fails
NextPassFails == ~done /\ InterpPass(Registry, State).err # NoErr

\* what a failing pass leaves, n, given the state it started in
FailingPassOutcome(n) ==
    LET lit == readBytesUntilUnescDelim(fbuf, 37).result IN
    /\ n.done
    /\ IsPrefix(heap[BaseId].data, n.heap[BaseId].data)
    /\ IsPrefix(n.heap[BaseId].data, MendedRun.heap[BaseId].data)
    /\ (heap[BaseId].kind = "eof" /\ lit # <<>>) =>
            (n.err = EOF /\ n.rawFormat = Nil /\ n.calls = calls)
    /\ \/ /\ n.calls = calls
          /\ n.closeLog \in {closeLog, <<>>}
       \/ /\ Len(n.calls) = Len(calls) + 1
          /\ n.closeLog = <<>>
          /\ \A id \in 1..Len(n.heap) : n.heap[id].closes = 0
       \/ /\ Len(n.calls) = Len(calls) + 1
          /\ n.closeLog # <<>>
          /\ StoppedAtFailingClose(n)

\* C18: the first error of a call ends it.  A state with an error is a state of a call
\* that has returned, so no pass follows it; and a pass that fails returns its error
\* with the sink holding what it held before the pass and what the pass wrote before
\* the error, which is a prefix of what the sink would hold if the destination accepted
\* every write and the failing handlers worked.  The pass stopped where it failed: on a
\* literal the sink refused, with no directive read and no handler called; or before the
\* head handler, with no handler called and no Close; or in the head handler, with no
\* Close; or in a Close, with the layers beneath left unclosed and that Close's error
\* returned.
C18_FirstErrorEndsTheCall ==
    /\ err # NoErr => done
    /\ NextPassFails => FailingPassOutcome(InterpPass(Registry, State))

\* a pass is about to fail in a Close, after the head handler wrote bytes that reached
\* the sink
C18_Witness ==
    /\ NextPassFails
    /\ InterpPass(Registry, State).closeLog # <<>>
    /\ InterpPass(Registry, State).heap[BaseId].data # heap[BaseId].data
    /\ Len(InterpPass(Registry, State).calls) = Len(calls) + 1


-----------------------------------------------------------------------------
(* Properties of calls on a sink that refuses bytes, checked under Spec *)

FailingSink == heap[BaseId].kind = "eof"

EscapeNext ==
    LET lit == readBytesUntilUnescDelim(fbuf, 37) IN
    /\ lit.err = NoErr /\ lit.result = <<>>
    /\ NextDirective.err = NoErr
    /\ SplitFormat(NextDirective.result).format = <<37>>

-----------------------------------------------------------------------------
(* Properties of calls that share an Interpolator, checked under SpecRegistry *)

\* the state of a call after n passes made with nothing else going on
RECURSIVE PassesAlone(_, _, _)
PassesAlone(reg, st, n) ==
    IF n = 0 \/ st.done THEN st ELSE PassesAlone(reg, InterpPass(reg, st), n - 1)

-----------------------------------------------------------------------------
(* Properties of the scanner, checked under SpecScan *)

LastScan == hist[1]

ScanDone(op) == hist # <<>> /\ hist[1].op = op

\* the byte at position i of s was consumed by the backslash before it
RECURSIVE Consumed(_, _)
Consumed(s, i) == i > 1 /\ s[i - 1] = 92 /\ ~Consumed(s, i - 1)

\* the positions of the bytes d of s that no backslash consumed
Unescaped(s, d) == {i \in 1..Len(s) : s[i] = d /\ ~Consumed(s, i)}

Least(S) == CHOOSE i \in S : \A j \in S : i <= j

\* s without the backslashes that no backslash consumed
RECURSIVE Unquoted(_, _)
Unquoted(s, i) ==
    IF i > Len(s) THEN <<>>
    ELSE IF s[i] = 92 /\ ~Consumed(s, i) THEN Unquoted(s, i + 1)
    ELSE <<s[i]>> \o Unquoted(s, i + 1)

\* C21: readBytesUntilUnescDelim(buf, d) returns the bytes before the first d that no
\* backslash consumed, with every consuming backslash dropped and the byte after it kept
\* as it is; the delimiter is consumed and not returned, and the buffer is left at the
\* byte after it.  When the input has no such d it returns everything collected with
\* io.EOF and leaves the buffer empty, and a backslash that is the last byte adds nothing.
C21_ReadUntilUnescapedDelimiter ==
    ScanDone("read") =>
        LET s == LastScan.input
            cut == Unescaped(s, LastScan.delim)
        IN  IF cut = {}
            THEN /\ LastScan.err = EOF
                 /\ LastScan.result = Unquoted(s, 1)
                 /\ fbuf = <<>>
            ELSE /\ LastScan.err = NoErr
                 /\ LastScan.result = Unquoted(SubSeq(s, 1, Least(cut) - 1), 1)
                 /\ fbuf = SubSeq(s, Least(cut) + 1, Len(s))

\* a read for '%' of "\%p%" went past the escaped '%' and stopped at the second one
C21_Witness ==
    /\ ScanDone("read")
    /\ LastScan.input = <<92, 37, 112, 37>>
    /\ LastScan.delim = 37
    /\ LastScan.result = <<37, 112>>
    /\ LastScan.err = NoErr
    /\ fbuf = <<>>


-----------------------------------------------------------------------------
(* Properties of the stage arguments, checked under Spec *)

\* the first pass read a directive of one stage, and the call was given an argument
OneStageDirective ==
    /\ pass = 1 /\ AfterDirective /\ Len(Stages) = 1 /\ args0 # <<>>
    /\ heap[BaseId].kind = "buffer"

\* the position of the first ':' of the stage, 0 when it has none
StageColon == IndexByte(Stages[1], 58)

\* what follows the first ':' of the stage
AfterColon == SubSeq(Stages[1], StageColon + 1, Len(Stages[1]))

\* C22: a stage without ':' hands nil to its handler, and a stage with ':' hands over
\* what follows the ':', which is not nil even when it is empty, so a handler can tell
\* the two apart: "%base64;" builds the standard encoder, and "%base64:;" is refused by
\* Base64 with ErrUnknownArguments of the empty argument before any handler runs.
C22_NoArgumentsIsNotEmptyArguments ==
    OneStageDirective =>
        /\ AfterColon # Nil
        /\ calls # <<>> =>
            calls[1].params = IF StageColon = 0 THEN Nil ELSE AfterColon
        /\ (HeadStage.format = S_base64 /\ StageColon = 0) =>
            /\ calls # <<>>
            /\ heap[ws.components[1]].kind = "base64"
            /\ heap[ws.components[1]].enc = "std"
        /\ (HeadStage.format = S_base64 /\ StageColon # 0 /\ AfterColon = <<>>) =>
            /\ done /\ err = ErrUnknownArguments(<<>>)
            /\ calls = <<>>
            /\ heap[BaseId].data = <<>>

\* "%base64:;" with the argument "a" was refused
C22_Witness ==
    /\ OneStageDirective
    /\ tmpl = DirectiveOf(<<S_base64 \o <<58>>>>)
    /\ args0 = <<V_a>>
    /\ err = ErrUnknownArguments(<<>>)


\* the positions of the ':' bytes of a stage
Colons(stage) == {i \in 1..Len(stage) : stage[i] = 58}

\* the stage is its name, or its name, one ':' and its arguments
SplitAtFirstColon(stage, name, params) ==
    /\ Colons(name) = {}
    /\ IF Colons(stage) = {} THEN name = stage /\ params = Nil
       ELSE /\ params # Nil
            /\ stage = name \o <<58>> \o params
            /\ Len(name) = Least(Colons(stage)) - 1

\* C23: each stage is split at its first ':' only.  The name a stage is resolved under
\* has no ':', and when the stage has a ':' the stage is the name, that one ':' and the
\* arguments, so every later ':' is part of the arguments and neither the separating ':'
\* nor the ';' that ended the directive is; the handler that was called received that
\* name's arguments ("%p:a:b;" calls p with "a:b").
C23_StageSplitAtFirstColonOnly ==
    AfterDirective =>
        /\ \A i \in 1..Len(Stages) :
            SplitAtFirstColon(Stages[i], SplitFormat(Stages[i]).format,
                              SplitFormat(Stages[i]).formatArgs)
        /\ \A i \in 2..Len(Stages) :
            LET e == parseEncoder(encoders, Stages[i]) IN
            e.err = NoErr =>
                /\ SplitAtFirstColon(Stages[i], SplitFormat(Stages[i]).format, e.formatArgs)
                /\ e.encoder = encoders[SplitFormat(Stages[i]).format]
        /\ (calls # <<>> /\ Len(calls) = pass) =>
            SplitAtFirstColon(Stages[1], LastCall.name, LastCall.params)

\* "%p:a:b;" with the argument "a": p was called with the arguments "a:b" and wrote
\* them before the value
C23_Witness ==
    /\ AfterDirective
    /\ tmpl = <<37, 112, 58, 97, 58, 98, 59>>
    /\ calls # <<>>
    /\ LastCall.name = S_p
    /\ LastCall.params = <<97, 58, 98>>
    /\ heap[BaseId].data = <<97, 58, 98, 97>>


-----------------------------------------------------------------------------
(* Properties of Push, checked under SpecStack *)

\* the Push calls of the history
Pushes == SelectSeq(hist, LAMBDA o : o.op = "Push")

\* no Push has failed
AllPushed == ws.Writer # NilWriter

\* the history is Push calls of the pass-through encoder, then Write calls only
RawPushesThenWrites ==
    \A i \in 1..Len(hist) :
        /\ hist[i].op \in {"Push", "Write"}
        /\ hist[i].op = "Push" =>
            (hist[i].enc = "raw" /\ \A j \in 1..i : hist[j].op = "Push")

\* the history is one Push of the encoder whose writer takes every byte and hands none
\* on, then Write calls only
SwallowingPushThenWrites ==
    /\ hist # <<>>
    /\ hist[1].op = "Push" /\ hist[1].enc = "badCloseEncoder"
    /\ \A i \in 2..Len(hist) : hist[i].op = "Write"

\* C24: while no Push has failed, the layer list holds the writers the Push calls
\* returned, in push order and nothing else; the current writer is the last of them, or
\* the base sink when there is none; each encoder was handed the writer that was current
\* before its Push; and Write goes to the current writer: through pass-through layers
\* the bytes written arrive at the base sink, and through a top layer that hands nothing
\* on none does.
C24_LayerListIsThePushesInOrder ==
    AllPushed =>
        /\ Len(ws.components) = Len(Pushes)
        /\ Len(heap) = Len(Pushes) + 1
        /\ \A k \in 1..Len(Pushes) :
            /\ ws.components[k] = k + 1
            /\ heap[k + 1].kind = KindOf(Pushes[k].enc)
            /\ heap[k + 1].kind # "failclose" => heap[k + 1].inner = Beneath(k)
        /\ ws.Writer = IF Pushes = <<>> THEN BaseId ELSE ws.components[Len(Pushes)]
        /\ (RawPushesThenWrites /\ heap[BaseId].kind = "buffer") =>
            heap[BaseId].data = Written(hist)
        /\ SwallowingPushThenWrites => heap[BaseId].data = <<>>

\* three pass-through layers pushed, then bytes written that reached the base sink
C24_Witness ==
    /\ AllPushed
    /\ Len(ws.components) = 3
    /\ RawPushesThenWrites
    /\ LastOpIs("Write")
    /\ heap[BaseId].data # <<>>


-----------------------------------------------------------------------------
(* Properties of a failing encoder constructor, checked under Spec *)

\* what the constructor of the encoder of stage i of the next directive returns for the
\* arguments of that stage
Constructing(i) ==
    LET e == parseEncoder(encoders, NextStages[i]) IN
    CallEncoder(e.encoder, BaseId, e.formatArgs).err

\* the next pass reads a directive whose names are all registered
KnownDirectiveNext ==
    /\ DirectiveNext
    /\ ~HeadUnknown
    /\ \A i \in 2..Len(NextStages) : ~ChainUnknown(i)

\* the chain stages of the next directive whose constructor fails
FailingChain == {i \in 2..Len(NextStages) : Constructing(i) # NoErr}

Greatest(S) == CHOOSE i \in S : \A j \in S : j <= i

\* the head of the next directive is an Encoder whose constructor fails
FailingHead ==
    /\ NextName(1) \notin DOMAIN formatters
    /\ Constructing(1) # NoErr

\* what a pass comes to when the constructor of stage i failed with e: the call returns
\* e, the layer list holds the stages pushed before stage i and no more, no writer
\* object was made for stage i, and no handler was called
ConstructorFailed(n, i, e) ==
    /\ n.done /\ n.err = e
    /\ n.calls = calls
    /\ Len(n.ws.components) = Len(NextStages) - i
    /\ Len(n.heap) = Len(heap) + Len(NextStages) - i

\* C25: when the constructor of an encoder fails, Push returns its error and the layer
\* list is not extended, and the call ends with that error before the value of the
\* directive is looked at: with a chain stage that fails the argument list is untouched
\* and no handler is called, whatever the value is, and with a head Encoder that fails
\* the value is not written ("%base64:bad;" returns ErrUnknownArguments of "bad", and
\* "%RAW|badenc;" with a value of a shape the raw path does not support returns the
\* error of badenc).
C25_ConstructorErrorEndsTheCall ==
    KnownDirectiveNext =>
        LET n == InterpPass(Registry, State) IN
        IF FailingChain # {}
        THEN /\ ConstructorFailed(n, Greatest(FailingChain),
                                  Constructing(Greatest(FailingChain)))
             /\ n.args = argsLeft
        ELSE (FailingHead /\ argsLeft # <<>>) =>
                ConstructorFailed(n, 1, Constructing(1))

\* "%RAW|badenc;" with an int is about to fail in the constructor of badenc
C25_Witness ==
    /\ KnownDirectiveNext
    /\ FailingChain # {}
    /\ fbuf = DirectiveOf(<<S_RAW, S_badenc>>)
    /\ argsLeft = <<Value("int", <<0>>)>>
    /\ InterpPass(Registry, State).err = ErrCustom


-----------------------------------------------------------------------------
(* Properties of failed registrations, checked under SpecRegistry *)

\* the registry made of the constructor's registrations and of the setup calls up to
\* the i-th that returned nil
RECURSIVE Registered(_)
Registered(i) ==
    IF i = 1 THEN Constructed(hist[1].op)
    ELSE LET reg == Registered(i - 1) IN
         IF hist[i].err # NoErr THEN reg
         ELSE IF hist[i].op = "AddFormatter"
         THEN [reg EXCEPT !.formatters = (hist[i].name :> hist[i].handler) @@ @]
         ELSE [reg EXCEPT !.encoders = (hist[i].name :> hist[i].handler) @@ @]

\* C26: a registration call that fails with ErrAlreadyExists leaves the registry as it
\* was.  The registry is at all times the constructor's registrations with those of the
\* calls that returned nil added in order, so a failed call neither replaced the handler
\* of its name, nor changed its kind, nor touched another name.
C26_FailedRegistrationChangesNothing ==
    SetUp => Registry = Registered(Len(hist))

\* p was registered as a formatter, and a later call that offered another handler for p
\* failed and left the first handler in place
C26_Witness ==
    /\ SetUp
    /\ Len(hist) >= 3
    /\ hist[2] = RegOp("AddFormatter", S_p, "p", NoErr)
    /\ hist[Len(hist)] = RegOp("AddFormatter", S_p, "JSON", ErrAlreadyExists(S_p))
    /\ formatters[S_p] = "p"


-----------------------------------------------------------------------------
(* Termination, checked under FairSpec *)

\* the pass that starts in the current state ends the call or leaves fewer bytes of the
\* template unread
PassConsumes ==
    LET n == InterpPass(Registry, State) IN
    n.done \/ Len(n.buf) < Len(fbuf)

\* splitHonoringEscaping of the directive read last gave one chunk more than the
\* directive has unescaped '|' bytes
OneChunkMoreThanDelimiters ==
    /\ Len(Stages) = Cardinality(Unescaped(lastFormat, 124)) + 1
    /\ Len(Stages) >= 1

\* C27: InterpWriter terminates on every template.  Every pass of the scan loop ends the
\* call or consumes at least one byte of the template, so the call returns after at most
\* as many passes as the template has bytes, plus one; and splitHonoringEscaping, called
\* on each directive, returns one chunk more than the directive has unescaped
\* delimiters, so at least one.
C27_InterpWriterTerminates ==
    /\ [](~done => PassConsumes)
    /\ [](pass <= Len(tmpl) + 1)
    /\ [](lastFormat # Nil => OneChunkMoreThanDelimiters)
    /\ <>done

\* a call returned nil after three passes, the second of which read a directive of two
\* stages
C27_Witness ==
    /\ done /\ err = NoErr
    /\ pass = 3
    /\ lastFormat = Nil
    /\ Len(calls) = 2


-----------------------------------------------------------------------------
(* Properties of backslashes in literal spans, checked under Spec *)

\* the literal span at the head of the unread template: the bytes before the first '%'
\* that no backslash consumed, or all of them
LiteralSpan ==
    IF Unescaped(fbuf, 37) = {} THEN fbuf
    ELSE SubSeq(fbuf, 1, Least(Unescaped(fbuf, 37)) - 1)

\* C28: in a literal span a backslash takes away the meaning of the byte after it.  A
\* pass writes its literal span with each consuming backslash removed and the byte after
\* it kept, so "\%" writes '%' and "\\" writes one backslash, and an escaped '%' opens
\* no directive: a template in which every '%' is escaped is one literal span, written in
\* one pass that returns nil with no argument taken and no handler called, and a lone
\* backslash at its end is dropped.
C28_BackslashInLiteralSpan ==
    heap[BaseId].kind = "buffer" =>
        /\ ~done =>
            IsPrefix(heap[BaseId].data \o Unquoted(LiteralSpan, 1),
                     InterpPass(Registry, State).heap[BaseId].data)
        /\ (done /\ Unescaped(tmpl, 37) = {}) =>
            /\ pass = 1 /\ err = NoErr
            /\ heap[BaseId].data = Unquoted(tmpl, 1)
            /\ lastFormat = Nil
            /\ argsLeft = args0 /\ calls = <<>>

\* "\%p\" with an argument: "%p" was written, the argument was not taken, and the
\* backslash at the end was dropped
C28_Witness ==
    /\ done /\ err = NoErr
    /\ tmpl = <<92, 37, 112, 92>>
    /\ heap[BaseId].data = <<37, 112>>
    /\ args0 # <<>> /\ argsLeft = args0


-----------------------------------------------------------------------------
(* Properties of InterpStr, checked under Spec *)

\* C29: InterpStr returns the empty string together with the error whenever the
\* interpolation fails, whatever had been written by then, and on success returns nil
\* and exactly the bytes the InterpWriter call on the same template and arguments has
\* written to its buffer sink.  Stated of every finished InterpWriter call into a buffer.
C29_InterpStrAllOrNothing ==
    (done /\ heap[BaseId].kind = "buffer") =>
        LET r == InterpStr(Registry, tmpl, args0) IN
        /\ r.err = err
        /\ err # NoErr => r.str = <<>>
        /\ err = NoErr => r.str = heap[BaseId].data

\* a call that failed after bytes had reached the buffer, for which InterpStr returns ""
C29_Witness ==
    /\ done /\ err # NoErr
    /\ heap[BaseId].kind = "buffer" /\ heap[BaseId].data # <<>>
    /\ InterpStr(Registry, tmpl, args0) = StrRes(<<>>, err)


-----------------------------------------------------------------------------
(* Properties of surplus arguments, checked under Spec *)

\* the sink the running call was given, as it was when the call started
SinkAtStart == IF heap[BaseId].kind = "buffer" THEN BufferSink ELSE WriterAlwaysEOF

\* how many arguments the call has taken off its list
Taken == Len(args0) - Len(argsLeft)

\* the arguments the call has taken
ArgsNeeded == SubSeq(args0, 1, Taken)

\* the same call made with only the arguments it has taken
WithoutSurplus == InterpWriter(Registry, SinkAtStart, tmpl, ArgsNeeded)

\* C30: arguments beyond those the directives take are ignored.  A finished call that
\* has arguments left over returns what the same call returns when given only the
\* arguments it took, with the same bytes in the sink and the same handler calls (so it
\* succeeds whenever that call does); every handler call got one of the arguments taken,
\* in order, and the arguments left over are the last ones of the list, passed to no
\* handler.
C30_SurplusArgumentsIgnored ==
    (done /\ argsLeft # <<>>) =>
        /\ err = WithoutSurplus.err
        /\ heap[BaseId].data = WithoutSurplus.heap[BaseId].data
        /\ calls = WithoutSurplus.calls
        /\ WithoutSurplus.args = <<>>
        /\ Len(calls) <= Taken
        /\ \A k \in 1..Len(calls) : calls[k].val = ArgsNeeded[k]
        /\ argsLeft = ArgsFrom(Taken + 1)

\* one directive, two arguments: the call succeeded, the handler got the first argument
\* only, and the second is left over
C30_Witness ==
    /\ done /\ err = NoErr
    /\ args0 = <<V_a, V_b>>
    /\ Len(calls) = 1 /\ calls[1].val = V_a
    /\ argsLeft = <<V_b>>
    /\ heap[BaseId].data # <<>>

====
